---- MODULE Spec2Model ----
(***************************************************************************)
(* A model of the avrae-ls analysis backend: the gvar cache                *)
(* (context.py), the type registry, the type inference pass and the        *)
(* receiver resolver (completions.py), and the diagnostics driver          *)
(* (diagnostics.py).                                                       *)
(*                                                                         *)
(* Python values are encoded as follows.  None is the string "None".       *)
(* A dict is an insertion-ordered sequence of <<key, value>> pairs.  A     *)
(* str that the code takes apart (a receiver expression) is a sequence of  *)
(* tokens; a str that is only compared or concatenated is a TLA+ string.   *)
(***************************************************************************)
EXTENDS Integers, Sequences, FiniteSets, TLC

VARIABLES
    cache,      \* GVarResolver._cache : str -> value
    config,     \* AvraeLSConfig: enable_gvar_fetch, service.token
    procs,      \* one record per caller of the resolver (a coroutine)
    ret,        \* the last call that returned, with its result
    ops,        \* number of resolver calls started so far
    type_map,   \* _TypeInferencer.type_map : key -> TypeKey
    assigned,   \* names the visited statements assign to
    document,   \* the snippets of the open document
    diagnostics,\* what the last analyze returned
    passes,     \* the diagnostic passes the last analyze ran, per snippet
    meta_cache, \* what lru_cache holds for _type_meta_map()
    analyses,   \* one record per call of _analyze_code (a coroutine)
    remote,     \* the gvars the service holds : str -> value
    source_text,\* the text analyze was last called with, as tokens
    last        \* the last step on the document, with its result

gvarVars == <<cache, config, procs, ret, ops>>

inferVars == <<type_map, assigned, last, meta_cache>>

docVars == <<document, diagnostics, passes, analyses, remote, source_text>>

vars == <<cache, config, procs, ret, ops, type_map, assigned, document,
          diagnostics, passes, meta_cache, analyses, remote,
          source_text, last>>

None == "None"

(***************************************************************************)
(* Bounds of the gvar cache model.                                         *)
(***************************************************************************)
MaxMapLen == 2      \* entries of a dict passed to seed / reset / refresh
MaxSeedLen == 1     \* entries of the seed dict passed to refresh
MaxKeys == 2        \* length of the key list passed to refresh
MaxOps == 2         \* resolver calls per behaviour

Procs == {"p1", "p2"}

\* A key as the caller passes it: a str, or an int that str() renders.
StrKey(s) == [t |-> "str", s |-> s, i |-> 0]
IntKey(i) == [t |-> "int", s |-> "", i |-> i]
RawKeys == {StrKey("a"), StrKey("1"), IntKey(1)}

Values == {"v1", "v2"}

\* str(key)
Str(k) == IF k.t = "int" THEN <<"1", "2", "3">>[k.i] ELSE k.s

RECURSIVE SeqsUpTo(_, _)
SeqsUpTo(S, n) ==
    IF n = 0 THEN {<<>>}
    ELSE LET shorter == SeqsUpTo(S, n - 1)
         IN  shorter \cup {Append(q, x) : q \in shorter, x \in S}

\* The argument `gvars: Dict | None`.
NoneMap == [isNone |-> TRUE, items |-> <<>>]
Dict(items) == [isNone |-> FALSE, items |-> items]
MapArgs ==
    {NoneMap} \cup
    {Dict(m) : m \in
        {items \in SeqsUpTo(RawKeys \X Values, MaxMapLen) :
            \A i, j \in 1..Len(items) :
                items[i][1] = items[j][1] => i = j}}

\* The keys of a dict argument as the cache spells them.
MapKeys(m) == {Str(m.items[i][1]) : i \in 1..Len(m.items)}

\* `if gvars:` is false for None and for the empty dict.
Truthy(m) == ~m.isNone /\ Len(m.items) > 0

\* Keys passed to ensure and refresh: str() is applied to them at once, so a
\* str and an int that render alike are the same request.
EnsureKeys == {StrKey("a"), IntKey(1)}

EmptyCache == [k \in {} |-> None]

Put(c, k, v) == [x \in DOMAIN c \cup {k} |-> IF x = k THEN v ELSE c[x]]

\* for k, v in gvars.items(): c[str(k)] = v
RECURSIVE UpdateFrom(_, _)
UpdateFrom(c, items) ==
    IF items = <<>> THEN c
    ELSE UpdateFrom(Put(c, Str(Head(items)[1]), Head(items)[2]), Tail(items))

(***************************************************************************)
(* GVarResolver (context.py)                                               *)
(***************************************************************************)

\* A reset that keeps the old entries.
reset_keeping(c, m) ==
    IF Truthy(m) THEN UpdateFrom(c, m.items) ELSE c

\* GVarResolver.reset: self._cache = {}; if gvars: update with str keys.
reset(c, m) ==
    IF Truthy(m) THEN UpdateFrom(EmptyCache, m.items) ELSE EmptyCache

\* A seed that replaces the cache by its argument.
seed_clearing(c, m) ==
    IF ~Truthy(m) THEN c ELSE UpdateFrom(EmptyCache, m.items)

\* GVarResolver.seed: return when gvars is falsy, else insert each entry.
seed(c, m) ==
    IF ~Truthy(m) THEN c ELSE UpdateFrom(c, m.items)

\* A refresh that merges its seed into the cache.
refresh_merging(c, m) == seed(c, m)

\* GVarResolver.refresh, line 147: self.reset(seed)
refresh_reset(c, m) == reset(c, m)

\* GVarResolver.get_local: self._cache.get(str(key))
get_local(c, k) == IF Str(k) \in DOMAIN c THEN c[Str(k)] ELSE None

\* GVarResolver.snapshot: dict(self._cache)
snapshot(c) == c

\* `not self._config.service.token`
Falsy(x) == x \in {None, ""}

\* The part of ensure that runs before the GET: its result, or "await" when
\* the request is issued.
ensure_sync(c, cfg, k) ==
    IF k \in DOMAIN c THEN "True"
    ELSE IF ~cfg.enable_gvar_fetch THEN "False"
    ELSE IF Falsy(cfg.token) THEN "False"
    ELSE "await"

\* What `await client.get(...)` can produce: an exception, or a response
\* with a status code and a body.  body "invalid": resp.json() raises;
\* "list": the payload is not a dict; "empty": a dict without "value";
\* "value": a dict with "value" (value None is JSON null).
NoResp == [kind |-> "none", status |-> 0, body |-> "", value |-> None]
Responses ==
    {[kind |-> "exception", status |-> 0, body |-> "", value |-> None]}
    \cup {[kind |-> "response", status |-> st, body |-> "", value |-> None] :
            st \in {404, 500}}
    \cup {[kind |-> "response", status |-> 200, body |-> b, value |-> None] :
            b \in {"invalid", "list", "empty"}}
    \cup {[kind |-> "response", status |-> 200, body |-> "value", value |-> v] :
            v \in Values \cup {None}}

\* The value ensure reads from a 200 response.
payload_value(resp) == IF resp.body = "value" THEN resp.value ELSE None

\* An ensure that stores whatever a 200 response carries.
ensure_response_any(c, k, resp) ==
    IF resp.kind = "exception" THEN [cache |-> c, val |-> "False"]
    ELSE IF resp.status # 200 THEN [cache |-> c, val |-> "False"]
    ELSE [cache |-> Put(c, k, payload_value(resp)), val |-> "True"]

\* The part of ensure that runs after the GET: the new cache and the result.
ensure_response(c, k, resp) ==
    IF resp.kind = "exception" THEN [cache |-> c, val |-> "False"]
    ELSE IF resp.status # 200 THEN [cache |-> c, val |-> "False"]
    ELSE IF payload_value(resp) = None THEN [cache |-> c, val |-> "False"]
    ELSE [cache |-> Put(c, k, payload_value(resp)), val |-> "True"]

\* The loop of refresh from one await to the next: ensure runs for each key in
\* turn and the loop suspends at the first key that needs a GET.
RECURSIVE run_keys(_, _, _, _)
run_keys(c, cfg, keys, ok) ==
    IF keys = <<>> THEN [pc |-> "idle", key |-> "", keys |-> <<>>, ok |-> ok]
    ELSE LET k == Str(Head(keys))
             r == ensure_sync(c, cfg, k)
         IN  IF r = "await"
             THEN [pc |-> "get", key |-> k, keys |-> Tail(keys), ok |-> ok]
             ELSE run_keys(c, cfg, Tail(keys),
                           IF r = "True" THEN ok \cup {k} ELSE ok)

\* ContextBuilder: config.profiles in insertion order, each with the gvars of
\* its merged variable sources, and config.default_profile.
Profiles ==
    << <<"default", Dict(<< <<StrKey("a"), "v1">> >>)>>,
       <<"alt", Dict(<< <<IntKey(1), "v2">> >>)>>,
       <<"bare", Dict(<<>>)>> >>

default_profile == "default"

ProfileNames == {Profiles[i][1] : i \in 1..Len(Profiles)}

ProfileGvars(name) ==
    LET i == CHOOSE j \in 1..Len(Profiles) : Profiles[j][1] = name
    IN  Profiles[i][2]

\* ContextBuilder._select_profile
select_profile(profile_name) ==
    IF profile_name # None /\ profile_name \in ProfileNames THEN profile_name
    ELSE IF default_profile \in ProfileNames THEN default_profile
    ELSE Profiles[1][1]

\* ContextBuilder.build: what it does to the resolver's cache.
build(c, profile_name) == seed(c, ProfileGvars(select_profile(profile_name)))

IdleProc ==
    [pc |-> "idle", op |-> "none", key |-> "", keys |-> <<>>, gets |-> 0,
     ok |-> {}, seeded |-> {}, pre |-> {}, clean |-> TRUE]

\* `ret` describes the call that returned in the last step (op "none" when
\* the last step returned from nothing): its arguments and result; whether
\* some key that was cached when it was called is not among the keys the
\* call names (old); for refresh the keys of its seed (seeded), the requested
\* keys whose ensure returned True (ok) and whether it ran alone (clean).
NoRet ==
    [op |-> "none", key |-> "", val |-> None, gets |-> 0, arg |-> NoneMap,
     resp |-> NoResp, seeded |-> {}, ok |-> {}, old |-> FALSE, clean |-> TRUE,
     profile |-> ""]

\* A new coroutine takes the first free slot (the slots are interchangeable).
FreeSlot(ps, p) ==
    /\ ps[p].pc = "idle"
    /\ p = "p2" => ps["p1"].pc # "idle"

\* A call by `p` (or by an outside caller, p = "") interleaves with every
\* refresh that is suspended in another coroutine.
Interleave(ps, p) ==
    [q \in Procs |->
        IF q # p /\ ps[q].op = "refresh"
        THEN [ps[q] EXCEPT !.clean = FALSE] ELSE ps[q]]

\* A syntax-tree node: its class, its text (an identifier, an attribute
\* name, a literal), the type of a literal, and its children.
Node(k, s, t, kids) == [k |-> k, s |-> s, t |-> t, kids |-> kids]
NoNode == Node("", "", "", <<>>)

\* An analysis that has not been called: no snippet, nothing found.
NoAnalysis ==
    [pc |-> "idle", body |-> <<>>, level |-> "", fault |-> FALSE,
     cache0 |-> <<>>, known |-> {}, todo |-> <<>>, seen |-> {}, key |-> "",
     calls |-> <<>>, passes |-> <<>>, diagnostics |-> <<>>, raised |-> FALSE]

\* What `last` holds before any step.
NoStep ==
    [op |-> "none", stmt |-> NoNode, expr |-> NoNode, attr |-> "",
     key |-> "", receiver |-> "", resolved |-> "", items |-> {}]

(***************************************************************************)
(* The type registry (completions.py).  A registered class is named by     *)
(* its class name; API(cls) lists what the registry reads from the class:  *)
(* ATTRS, METHODS, the return annotation of each property, and the return  *)
(* annotations of __iter__ and __getitem__.                                *)
(***************************************************************************)

\* Return annotations: a class, a list of a class, or none that the
\* registry can use.
Cls(c) == [form |-> "class", cls |-> c]
ListOf(c) == [form |-> "list", cls |-> c]
NoAnn == [form |-> "none", cls |-> ""]

Range(q) == {q[i] : i \in 1..Len(q)}

\* dict.get and `in` on a dict kept as a sequence of <<key, value>> pairs
\* in insertion order.
HasKey(items, k) == \E i \in 1..Len(items) : items[i][1] = k
Lookup(items, k, default) ==
    IF HasKey(items, k)
    THEN items[CHOOSE i \in 1..Len(items) : items[i][1] = k][2]
    ELSE default

TypeSpec(name, cls, parents, safe_methods) ==
    [name |-> name, cls |-> cls, parents |-> parents,
     safe_methods |-> safe_methods]

TYPE_SPECS ==
    <<
       TypeSpec("character", "CharacterAPI", <<>>, <<"get_cvar", "get_cc">>),
       TypeSpec("combat", "CombatAPI", <<>>, <<"get_combatant", "get_group", "get_metadata">>),
       TypeSpec("SimpleCombat", "CombatAPI", <<>>, <<"get_combatant", "get_group", "get_metadata">>),
       TypeSpec("ctx", "AliasContextAPI", <<>>, <<>>),
       TypeSpec("SimpleRollResult", "SimpleRollResult", <<>>, <<>>),
       TypeSpec("stats", "AliasBaseStats", <<>>, <<>>),
       TypeSpec("levels", "AliasLevels", <<"character">>, <<"get">>),
       TypeSpec("attacks", "AliasAttackList", <<"character">>, <<>>),
       TypeSpec("attack", "AliasAttack", <<"attacks", "actions">>, <<>>),
       TypeSpec("skills", "AliasSkills", <<"character">>, <<>>),
       TypeSpec("AliasSkills", "AliasSkills", <<"character">>, <<>>),
       TypeSpec("skill", "AliasSkill", <<"skills">>, <<>>),
       TypeSpec("AliasSkill", "AliasSkill", <<"skills">>, <<>>),
       TypeSpec("saves", "AliasSaves", <<"character">>, <<"get">>),
       TypeSpec("resistances", "AliasResistances", <<"character">>, <<"is_resistant", "is_immune", "is_vulnerable", "is_neutral">>),
       TypeSpec("coinpurse", "AliasCoinpurse", <<"character">>, <<"get_coins">>),
       TypeSpec("custom_counter", "AliasCustomCounter", <<"character">>, <<>>),
       TypeSpec("consumable", "AliasCustomCounter", <<"character">>, <<>>),
       TypeSpec("death_saves", "AliasDeathSaves", <<"character">>, <<"is_stable", "is_dead">>),
       TypeSpec("action", "AliasAction", <<"actions", "character">>, <<>>),
       TypeSpec("spellbook", "AliasSpellbook", <<"character">>, <<"find", "get_slots", "get_max_slots", "remaining_casts_of", "can_cast">>),
       TypeSpec("spell", "AliasSpellbookSpell", <<"spellbook">>, <<>>),
       TypeSpec("guild", "GuildAPI", <<"ctx">>, <<>>),
       TypeSpec("channel", "ChannelAPI", <<"ctx">>, <<>>),
       TypeSpec("category", "CategoryAPI", <<"channel">>, <<>>),
       TypeSpec("author", "AuthorAPI", <<"ctx">>, <<>>),
       TypeSpec("role", "RoleAPI", <<"author">>, <<>>),
       TypeSpec("combatant", "CombatantAPI", <<"combat", "SimpleCombat", "group", "SimpleGroup">>, <<"get_effect">>),
       TypeSpec("SimpleCombatant", "CombatantAPI", <<"combat", "SimpleCombat", "group", "SimpleGroup">>, <<"get_effect">>),
       TypeSpec("group", "SimpleGroupAPI", <<"combat", "SimpleCombat">>, <<"get_combatant">>),
       TypeSpec("SimpleGroup", "SimpleGroupAPI", <<"combat", "SimpleCombat">>, <<"get_combatant">>),
       TypeSpec("effect", "SimpleEffectAPI", <<"combatant", "SimpleCombatant">>, <<>>),
       TypeSpec("SimpleEffect", "SimpleEffectAPI", <<"combatant", "SimpleCombatant">>, <<>>),
       TypeSpec("list", "_BuiltinList", <<>>, <<>>),
       TypeSpec("int", "int", <<>>, <<>>),
       TypeSpec("dict", "_BuiltinDict", <<>>, <<"get">>),
       TypeSpec("str", "_BuiltinStr", <<>>, <<>>),
       TypeSpec("ParsedArguments", "ParsedArguments", <<>>, <<>>) >>

API(cls) ==
    CASE cls = "CharacterAPI" ->
            [ATTRS |-> <<"name", "stats", "levels", "attacks", "skills",
                         "saves", "resistances", "ac", "max_hp", "hp",
                         "temp_hp", "spellbook", "creature_type", "actions",
                         "coinpurse", "csettings", "race", "background",
                         "owner", "upstream", "sheet_type", "cvars",
                         "consumables", "death_saves", "description",
                         "image">>,
             METHODS |-> <<"set_hp", "modify_hp", "hp_str", "reset_hp",
                           "set_temp_hp", "cc", "get_cc", "get_cc_max",
                           "get_cc_min", "set_cc", "mod_cc", "delete_cc",
                           "create_cc_nx", "create_cc", "edit_cc",
                           "cc_exists", "cc_str", "get_cvar", "set_cvar",
                           "set_cvar_nx", "delete_cvar">>,
             returns |-> <<<<"stats", Cls("AliasBaseStats")>>,
                           <<"levels", Cls("AliasLevels")>>,
                           <<"attacks", Cls("AliasAttackList")>>,
                           <<"skills", Cls("AliasSkills")>>,
                           <<"saves", Cls("AliasSaves")>>,
                           <<"resistances", Cls("AliasResistances")>>,
                           <<"temp_hp", Cls("int")>>,
                           <<"spellbook", Cls("AliasSpellbook")>>,
                           <<"actions", ListOf("AliasAction")>>,
                           <<"coinpurse", Cls("AliasCoinpurse")>>,
                           <<"consumables", ListOf("AliasCustomCounter")>>,
                           <<"death_saves", Cls("AliasDeathSaves")>>>>,
             iter |-> NoAnn, getitem |-> NoAnn]
       [] cls = "CombatAPI" ->
            [ATTRS |-> <<"combatants", "groups", "me", "current", "name",
                         "round_num", "turn_num", "metadata">>,
             METHODS |-> <<"get_combatant", "get_group", "set_metadata",
                           "get_metadata", "delete_metadata", "set_round",
                           "end_round">>,
             returns |-> <<<<"combatants", ListOf("CombatantAPI")>>,
                           <<"groups", ListOf("SimpleGroupAPI")>>,
                           <<"round_num", Cls("int")>>,
                           <<"turn_num", Cls("int")>>>>,
             iter |-> NoAnn, getitem |-> NoAnn]
       [] cls = "AliasContextAPI" ->
            [ATTRS |-> <<"guild", "channel", "author", "prefix", "alias",
                         "message_id">>,
             METHODS |-> <<>>,
             returns |-> <<>>,
             iter |-> NoAnn, getitem |-> NoAnn]
       [] cls = "SimpleRollResult" ->
            [ATTRS |-> <<"dice", "total", "full", "result", "raw">>,
             METHODS |-> <<"consolidated">>,
             returns |-> <<>>,
             iter |-> NoAnn, getitem |-> NoAnn]
       [] cls = "AliasBaseStats" ->
            [ATTRS |-> <<"prof_bonus", "strength", "dexterity",
                         "constitution", "intelligence", "wisdom",
                         "charisma">>,
             METHODS |-> <<"get_mod", "get">>,
             returns |-> <<<<"prof_bonus", Cls("int")>>,
                           <<"strength", Cls("int")>>,
                           <<"dexterity", Cls("int")>>,
                           <<"constitution", Cls("int")>>,
                           <<"intelligence", Cls("int")>>,
                           <<"wisdom", Cls("int")>>,
                           <<"charisma", Cls("int")>>>>,
             iter |-> NoAnn, getitem |-> NoAnn]
       [] cls = "AliasLevels" ->
            [ATTRS |-> <<"total_level">>,
             METHODS |-> <<"get">>,
             returns |-> <<>>,
             iter |-> ListOf(""), getitem |-> NoAnn]
       [] cls = "AliasAttackList" ->
            [ATTRS |-> <<>>,
             METHODS |-> <<>>,
             returns |-> <<>>,
             iter |-> ListOf("AliasAttack"), getitem |-> NoAnn]
       [] cls = "AliasAttack" ->
            [ATTRS |-> <<"name", "verb", "proper", "activation_type", "raw">>,
             METHODS |-> <<>>,
             returns |-> <<>>,
             iter |-> NoAnn, getitem |-> NoAnn]
       [] cls = "AliasSkills" ->
            [ATTRS |-> <<"acrobatics", "animalHandling", "arcana",
                         "athletics", "deception", "history", "initiative",
                         "insight", "intimidation", "investigation",
                         "medicine", "nature", "perception", "performance",
                         "persuasion", "religion", "sleightOfHand",
                         "stealth", "survival", "strength", "dexterity",
                         "constitution", "intelligence", "wisdom",
                         "charisma">>,
             METHODS |-> <<>>,
             returns |-> <<>>,
             iter |-> ListOf(""), getitem |-> Cls("AliasSkill")]
       [] cls = "AliasSkill" ->
            [ATTRS |-> <<"value", "prof", "bonus", "adv">>,
             METHODS |-> <<"d20">>,
             returns |-> <<<<"value", Cls("int")>>, <<"bonus", Cls("int")>>>>,
             iter |-> NoAnn, getitem |-> NoAnn]
       [] cls = "AliasSaves" ->
            [ATTRS |-> <<>>,
             METHODS |-> <<"get">>,
             returns |-> <<>>,
             iter |-> ListOf(""), getitem |-> NoAnn]
       [] cls = "AliasResistances" ->
            [ATTRS |-> <<"resist", "vuln", "immune", "neutral">>,
             METHODS |-> <<"is_resistant", "is_immune", "is_vulnerable",
                           "is_neutral">>,
             returns |-> <<<<"resist", ListOf("")>>, <<"vuln", ListOf("")>>,
                           <<"immune", ListOf("")>>,
                           <<"neutral", ListOf("")>>>>,
             iter |-> NoAnn, getitem |-> NoAnn]
       [] cls = "AliasCoinpurse" ->
            [ATTRS |-> <<"pp", "gp", "ep", "sp", "cp", "total">>,
             METHODS |-> <<"coin_str", "compact_str", "modify_coins",
                           "set_coins", "autoconvert", "get_coins">>,
             returns |-> <<>>,
             iter |-> NoAnn, getitem |-> NoAnn]
       [] cls = "AliasCustomCounter" ->
            [ATTRS |-> <<"name", "title", "desc", "value", "max", "min",
                         "reset_on", "display_type", "reset_to", "reset_by">>,
             METHODS |-> <<"mod", "set", "reset", "full_str">>,
             returns |-> <<<<"value", Cls("int")>>, <<"max", Cls("int")>>,
                           <<"min", Cls("int")>>>>,
             iter |-> NoAnn, getitem |-> NoAnn]
       [] cls = "AliasDeathSaves" ->
            [ATTRS |-> <<"successes", "fails">>,
             METHODS |-> <<"succeed", "fail", "is_stable", "is_dead",
                           "reset">>,
             returns |-> <<<<"successes", Cls("int")>>,
                           <<"fails", Cls("int")>>>>,
             iter |-> NoAnn, getitem |-> NoAnn]
       [] cls = "AliasAction" ->
            [ATTRS |-> <<"name", "activation_type", "activation_type_name",
                         "description", "snippet">>,
             METHODS |-> <<>>,
             returns |-> <<>>,
             iter |-> NoAnn, getitem |-> NoAnn]
       [] cls = "AliasSpellbook" ->
            [ATTRS |-> <<"dc", "sab", "caster_level", "spell_mod", "spells",
                         "pact_slot_level", "num_pact_slots",
                         "max_pact_slots">>,
             METHODS |-> <<"find", "slots_str", "get_max_slots",
                           "get_slots", "set_slots", "use_slot",
                           "reset_slots", "reset_pact_slots",
                           "remaining_casts_of", "cast", "can_cast">>,
             returns |-> <<<<"dc", Cls("int")>>, <<"sab", Cls("int")>>,
                           <<"caster_level", Cls("int")>>,
                           <<"spell_mod", Cls("int")>>,
                           <<"spells", ListOf("AliasSpellbookSpell")>>>>,
             iter |-> NoAnn, getitem |-> NoAnn]
       [] cls = "AliasSpellbookSpell" ->
            [ATTRS |-> <<"name", "dc", "sab", "mod", "prepared">>,
             METHODS |-> <<>>,
             returns |-> <<>>,
             iter |-> NoAnn, getitem |-> NoAnn]
       [] cls = "GuildAPI" ->
            [ATTRS |-> <<"name", "id">>,
             METHODS |-> <<"servsettings">>,
             returns |-> <<>>,
             iter |-> NoAnn, getitem |-> NoAnn]
       [] cls = "ChannelAPI" ->
            [ATTRS |-> <<"name", "id", "topic", "category", "parent">>,
             METHODS |-> <<>>,
             returns |-> <<>>,
             iter |-> NoAnn, getitem |-> NoAnn]
       [] cls = "CategoryAPI" ->
            [ATTRS |-> <<"name", "id">>,
             METHODS |-> <<>>,
             returns |-> <<>>,
             iter |-> NoAnn, getitem |-> NoAnn]
       [] cls = "AuthorAPI" ->
            [ATTRS |-> <<"name", "id", "discriminator", "display_name",
                         "roles">>,
             METHODS |-> <<"get_roles">>,
             returns |-> <<<<"roles", ListOf("RoleAPI")>>>>,
             iter |-> NoAnn, getitem |-> NoAnn]
       [] cls = "RoleAPI" ->
            [ATTRS |-> <<"name", "id">>,
             METHODS |-> <<>>,
             returns |-> <<>>,
             iter |-> NoAnn, getitem |-> NoAnn]
       [] cls = "CombatantAPI" ->
            [ATTRS |-> <<"name", "stats", "levels", "attacks", "skills",
                         "saves", "resistances", "ac", "max_hp", "hp",
                         "temp_hp", "spellbook", "creature_type", "effects",
                         "init", "initmod", "type", "note", "controller",
                         "group", "race", "monster_name", "is_hidden">>,
             METHODS |-> <<"set_hp", "modify_hp", "hp_str", "reset_hp",
                           "set_temp_hp", "save", "damage", "set_ac",
                           "set_maxhp", "set_init", "set_name", "set_group",
                           "set_note", "get_effect", "add_effect",
                           "remove_effect">>,
             returns |-> <<<<"stats", Cls("AliasBaseStats")>>,
                           <<"levels", Cls("AliasLevels")>>,
                           <<"attacks", Cls("AliasAttackList")>>,
                           <<"skills", Cls("AliasSkills")>>,
                           <<"saves", Cls("AliasSaves")>>,
                           <<"resistances", Cls("AliasResistances")>>,
                           <<"temp_hp", Cls("int")>>,
                           <<"spellbook", Cls("AliasSpellbook")>>,
                           <<"effects", ListOf("SimpleEffectAPI")>>,
                           <<"init", Cls("int")>>, <<"initmod", Cls("int")>>>>,
             iter |-> NoAnn, getitem |-> NoAnn]
       [] cls = "SimpleGroupAPI" ->
            [ATTRS |-> <<"combatants", "type", "init", "name", "id">>,
             METHODS |-> <<"get_combatant", "set_init">>,
             returns |-> <<<<"combatants", ListOf("CombatantAPI")>>,
                           <<"init", Cls("int")>>>>,
             iter |-> NoAnn, getitem |-> NoAnn]
       [] cls = "SimpleEffectAPI" ->
            [ATTRS |-> <<"name", "duration", "remaining", "effect",
                         "attacks", "buttons", "conc", "desc",
                         "ticks_on_end", "combatant_name", "parent",
                         "children">>,
             METHODS |-> <<"set_parent">>,
             returns |-> <<<<"attacks", ListOf("")>>,
                           <<"buttons", ListOf("")>>,
                           <<"children", ListOf("SimpleEffectAPI")>>>>,
             iter |-> NoAnn, getitem |-> NoAnn]
       [] cls = "_BuiltinList" ->
            [ATTRS |-> <<>>,
             METHODS |-> <<"append", "extend", "insert", "remove", "pop",
                           "clear", "index", "count", "sort", "reverse",
                           "copy">>,
             returns |-> <<>>,
             iter |-> ListOf(""), getitem |-> NoAnn]
       [] cls = "int" ->
            [ATTRS |-> <<>>,
             METHODS |-> <<>>,
             returns |-> <<>>,
             iter |-> NoAnn, getitem |-> NoAnn]
       [] cls = "_BuiltinDict" ->
            [ATTRS |-> <<>>,
             METHODS |-> <<"get", "keys", "values", "items", "pop",
                           "popitem", "update", "setdefault", "clear",
                           "copy">>,
             returns |-> <<>>,
             iter |-> ListOf(""), getitem |-> NoAnn]
       [] cls = "_BuiltinStr" ->
            [ATTRS |-> <<>>,
             METHODS |-> <<"lower", "upper", "title", "split", "join",
                           "replace", "strip", "startswith", "endswith",
                           "format">>,
             returns |-> <<>>,
             iter |-> ListOf(""), getitem |-> NoAnn]
       [] cls = "ParsedArguments" ->
            [ATTRS |-> <<>>,
             METHODS |-> <<>>,
             returns |-> <<>>,
             iter |-> NoAnn, getitem |-> NoAnn]

\* A resolver that lets every receiver through.
_allow_from_any(type_key, receiver_types, receiver_type) == type_key

\* _allow_from(type_key, *receiver_types)(receiver_type)
_allow_from(type_key, receiver_types, receiver_type) ==
    IF receiver_type \in Range(receiver_types) THEN type_key ELSE None

\* The loop of _build_type_maps, one dict at a time.  A dict keeps a key
\* where it was first inserted and holds what was assigned to it last.
_build_type_maps(specs) ==
    LET inserted == {i \in 1..Len(specs) :
                        \A j \in 1..(i - 1) : specs[j].name # specs[i].name}
        nth(n) == CHOOSE i \in inserted :
                        Cardinality({j \in inserted : j <= i}) = n
        assigned_last(name) ==
            specs[CHOOSE i \in 1..Len(specs) :
                    /\ specs[i].name = name
                    /\ \A j \in (i + 1)..Len(specs) : specs[j].name # name]
        entry(name) ==
            LET spec == assigned_last(name)
                resolver == IF spec.parents # <<>>
                            THEN [present |-> TRUE, type_key |-> spec.name,
                                  allowed |-> spec.parents]
                            ELSE [present |-> FALSE, type_key |-> "",
                                  allowed |-> <<>>]
            IN  [cls |-> spec.cls, resolver |-> resolver]
        safe == {i \in 1..Len(specs) : specs[i].safe_methods # <<>>}
    IN  [type_map |->
            [n \in 1..Cardinality(inserted) |->
                <<specs[nth(n)].name, entry(specs[nth(n)].name)>>],
         safe_methods |->
            [cls \in {specs[i].cls : i \in safe} |->
                UNION {Range(specs[i].safe_methods) :
                        i \in {j \in safe : specs[j].cls = cls}}]]

TYPE_MAP == _build_type_maps(TYPE_SPECS).type_map
SAFE_METHODS == _build_type_maps(TYPE_SPECS).safe_methods

TypeKeys == {TYPE_MAP[i][1] : i \in 1..Len(TYPE_MAP)}

_resolve_type_key(type_key, receiver_type) ==
    IF ~HasKey(TYPE_MAP, type_key) THEN None
    ELSE LET entry == Lookup(TYPE_MAP, type_key, None)
         IN  IF entry.resolver.present
             THEN _allow_from(entry.resolver.type_key,
                              entry.resolver.allowed, receiver_type)
             ELSE type_key

_type_cls(type_key) ==
    IF ~HasKey(TYPE_MAP, type_key) THEN None
    ELSE Lookup(TYPE_MAP, type_key, None).cls


(***************************************************************************)
(* Type metadata (completions.py, _type_meta_map): for every registered    *)
(* name, the attributes and methods of its class and the type each         *)
(* attribute yields.                                                       *)
(***************************************************************************)

\* {entry.cls: key for key, entry in TYPE_MAP.items()}: the last name
\* registered for a class stays.
reverse_type_map ==
    [cls \in {TYPE_MAP[i][2].cls : i \in 1..Len(TYPE_MAP)} |->
        TYPE_MAP[CHOOSE i \in 1..Len(TYPE_MAP) :
                    /\ TYPE_MAP[i][2].cls = cls
                    /\ \A j \in (i + 1)..Len(TYPE_MAP) :
                            TYPE_MAP[j][2].cls # cls][1]]

\* <<type name, element type>> of an annotation; "" where it names none.
_type_names_from_annotation(ann) ==
    LET name(cls) == IF cls \in DOMAIN reverse_type_map
                     THEN reverse_type_map[cls] ELSE ""
    IN  CASE ann.form = "class" -> <<name(ann.cls), "">>
          [] ann.form = "list" -> <<"list", name(ann.cls)>>
          [] OTHER -> <<"", "">>

_element_type_from_iterable(cls) ==
    _type_names_from_annotation(API(cls).iter)[2]

_element_type_from_getitem(cls) ==
    LET names == _type_names_from_annotation(API(cls).getitem)
    IN  IF names[1] # "" THEN names[1] ELSE names[2]

_iter_element_for_type_name(type_name) ==
    IF _type_cls(type_name) = None THEN ""
    ELSE _element_type_from_iterable(_type_cls(type_name))

_getitem_element_for_type_name(type_name) ==
    IF _type_cls(type_name) = None THEN ""
    ELSE _element_type_from_getitem(_type_cls(type_name))

\* A TypeMeta holds the AttrMeta of every name in ATTRS, the names in
\* METHODS and the element type.  None of the registered classes annotates
\* an attribute at class level, so only property annotations give a hint.
_type_meta_map ==
    LET attr_meta(hint, element_hint) ==
            [type_name |-> IF hint[1] = "" /\ element_hint # ""
                           THEN element_hint ELSE hint[1],
             element_type |->
                IF hint[1] # "" /\ hint[2] = ""
                THEN _iter_element_for_type_name(hint[1])
                ELSE IF hint[1] = "" /\ element_hint # "" /\ hint[2] = ""
                THEN _iter_element_for_type_name(element_hint)
                ELSE hint[2]]
        type_meta(api, iterable_element, getitem_element) ==
            [attrs |-> [attr \in Range(api.ATTRS) |->
                            attr_meta(_type_names_from_annotation(
                                        Lookup(api.returns, attr, NoAnn)),
                                      IF iterable_element # ""
                                      THEN iterable_element
                                      ELSE getitem_element)],
             methods |-> Range(api.METHODS),
             element_type |-> IF iterable_element # ""
                              THEN iterable_element ELSE getitem_element]
    IN  [type_name \in TypeKeys |->
            type_meta(API(_type_cls(type_name)),
                      _iter_element_for_type_name(type_name),
                      _getitem_element_for_type_name(type_name))]

\* A document nobody has typed into or asked about.
FreshDocument ==
    /\ type_map = [key \in {} |-> ""]
    /\ assigned = {}
    /\ document = [tagged |-> FALSE, snippets |-> <<>>]
    /\ diagnostics = <<>>
    /\ passes = <<>>
    /\ analyses = [p \in Procs |-> NoAnalysis]
    /\ source_text = <<>>
    /\ last = NoStep

\* A resolver that nobody has called yet.
FreshResolver ==
    /\ cache = EmptyCache
    /\ procs = [p \in Procs |-> IdleProc]
    /\ ret = NoRet
    /\ ops = 0

\* A session under AvraeLSConfig.default: fetching is off and there is no
\* token.  The metadata is computed on the first request for it and is
\* the same whenever that happens (lru_cache), so the session is taken
\* from the point where the cache is filled.
InitDefault ==
    /\ FreshResolver
    /\ config = [enable_gvar_fetch |-> FALSE, token |-> None]
    /\ FreshDocument
    /\ meta_cache = _type_meta_map
    /\ remote = <<>>

\* A resolver under any configuration; nobody has asked for metadata.
InitGVar ==
    /\ FreshResolver
    /\ config \in [enable_gvar_fetch : BOOLEAN, token : {None, "tok"}]
    /\ FreshDocument
    /\ meta_cache = <<>>
    /\ remote = <<>>

\* resolver.seed(m)
Seed(m) ==
    /\ ops < MaxOps
    /\ cache' = seed(cache, m)
    /\ ret' = [NoRet EXCEPT !.op = "seed", !.arg = m,
                            !.old = (DOMAIN cache \ MapKeys(m) # {})]
    /\ procs' = Interleave(procs, "")
    /\ ops' = ops + 1
    /\ UNCHANGED <<config, inferVars, docVars>>

\* resolver.reset(m)
Reset(m) ==
    /\ ops < MaxOps
    /\ cache' = reset(cache, m)
    /\ ret' = [NoRet EXCEPT !.op = "reset", !.arg = m,
                            !.old = (DOMAIN cache \ MapKeys(m) # {})]
    /\ procs' = Interleave(procs, "")
    /\ ops' = ops + 1
    /\ UNCHANGED <<config, inferVars, docVars>>

\* builder.build(profile_name)
Build(name) ==
    /\ ops < MaxOps
    /\ cache' = build(cache, name)
    /\ ret' = [NoRet EXCEPT !.op = "build", !.profile = select_profile(name),
                            !.old = (DOMAIN cache \
                                MapKeys(ProfileGvars(select_profile(name)))
                                     # {})]
    /\ procs' = Interleave(procs, "")
    /\ ops' = ops + 1
    /\ UNCHANGED <<config, inferVars, docVars>>

\* await resolver.ensure(k), up to its return or to the GET.
Ensure(p, k) ==
    /\ ops < MaxOps
    /\ FreeSlot(procs, p)
    /\ LET r == ensure_sync(cache, config, Str(k))
       IN  IF r = "await"
           THEN /\ procs' = [Interleave(procs, p) EXCEPT
                    ![p] = [IdleProc EXCEPT !.pc = "get", !.op = "ensure",
                                            !.key = Str(k), !.gets = 1]]
                /\ ret' = NoRet
           ELSE /\ procs' = Interleave(procs, p)
                /\ ret' = [NoRet EXCEPT !.op = "ensure", !.key = Str(k),
                                        !.val = r]
    /\ ops' = ops + 1
    /\ UNCHANGED <<cache, config, inferVars, docVars>>

\* await resolver.refresh(m, keys), up to its return or to the first GET.
\* One refresh is in flight at a time; ensure calls, seeds, resets and builds
\* of other callers run while it is suspended.
Refresh(p, m, keys) ==
    /\ ops < MaxOps
    /\ FreeSlot(procs, p)
    /\ \A q \in Procs : procs[q].op # "refresh"
    /\ LET c1 == refresh_reset(cache, m)
           run == run_keys(c1, config, keys, {})
       IN  /\ cache' = c1
           /\ IF run.pc = "get"
              THEN /\ procs' = [Interleave(procs, p) EXCEPT
                       ![p] = [IdleProc EXCEPT !.pc = "get",
                                  !.op = "refresh", !.key = run.key,
                                  !.keys = run.keys, !.ok = run.ok,
                                  !.gets = 1, !.seeded = MapKeys(m),
                                  !.pre = DOMAIN cache \ MapKeys(m)]]
                   /\ ret' = NoRet
              ELSE /\ procs' = Interleave(procs, p)
                   /\ ret' = [NoRet EXCEPT !.op = "refresh",
                                 !.seeded = MapKeys(m), !.ok = run.ok,
                                 !.old = (DOMAIN cache \ MapKeys(m) # {})]
    /\ ops' = ops + 1
    /\ UNCHANGED <<config, inferVars, docVars>>

\* The GET of `p` completes with `resp`; ensure returns, and a refresh goes on
\* to its next key.
Respond(p, resp) ==
    /\ procs[p].pc = "get"
    /\ LET me == procs[p]
           res == ensure_response(cache, me.key, resp)
       IN  /\ cache' = res.cache
           /\ IF me.op = "ensure"
              THEN /\ procs' = [Interleave(procs, p) EXCEPT ![p] = IdleProc]
                   /\ ret' = [NoRet EXCEPT !.op = "ensure", !.key = me.key,
                                 !.val = res.val, !.gets = me.gets,
                                 !.resp = resp]
              ELSE LET ok1 == IF res.val = "True"
                              THEN me.ok \cup {me.key} ELSE me.ok
                       run == run_keys(res.cache, config, me.keys, ok1)
                   IN  IF run.pc = "get"
                       THEN /\ procs' = [Interleave(procs, p) EXCEPT
                                ![p] = [me EXCEPT !.key = run.key,
                                           !.keys = run.keys, !.ok = run.ok,
                                           !.gets = 1]]
                            /\ ret' = NoRet
                       ELSE /\ procs' = [Interleave(procs, p) EXCEPT
                                            ![p] = IdleProc]
                            /\ ret' = [NoRet EXCEPT !.op = "refresh",
                                          !.seeded = me.seeded,
                                          !.ok = run.ok,
                                          !.old = (me.pre \ run.ok # {}),
                                          !.clean = me.clean]
    /\ UNCHANGED <<config, ops, inferVars, docVars>>

NextGVar ==
    \/ \E m \in MapArgs : Seed(m)
    \/ \E m \in MapArgs : Reset(m)
    \/ \E name \in ProfileNames \cup {None, "missing"} : Build(name)
    \/ \E p \in Procs, k \in EnsureKeys : Ensure(p, k)
    \/ \E p \in Procs, keys \in SeqsUpTo(EnsureKeys, MaxKeys),
          m \in {a \in MapArgs : Len(a.items) <= MaxSeedLen} :
            Refresh(p, m, keys)
    \/ \E p \in Procs, resp \in Responses : Respond(p, resp)

SpecGVar == InitGVar /\ [][NextGVar]_vars

(***************************************************************************)
(* Properties of the gvar cache                                            *)
(***************************************************************************)

\* The value a dict gives a cache key: that of the last entry spelled so.
LastValue(m, k) ==
    LET idx == {i \in 1..Len(m.items) : Str(m.items[i][1]) = k}
        latest == CHOOSE i \in idx : \A j \in idx : j <= i
    IN  m.items[latest][2]

C2_ResetHoldsExactlyArgument ==
    ret.op = "reset" =>
        /\ cache = [k \in MapKeys(ret.arg) |-> LastValue(ret.arg, k)]
        /\ (ret.arg.isNone \/ ret.arg.items = <<>>) => cache = EmptyCache

\* A reset with a non-empty dict that drops an older key.
C2_Witness ==
    /\ ret.op = "reset"
    /\ ret.old
    /\ cache # EmptyCache

\* C3: seed(m) is a merge-insert.  Every key of m maps to m's value, every
\* other key that was cached keeps its value, no other key appears, and a
\* seed with an absent or empty dict changes nothing.
C3_SeedMergeInsert ==
    [][ret'.op = "seed" =>
        /\ DOMAIN cache' = DOMAIN cache \cup MapKeys(ret'.arg)
        /\ \A k \in MapKeys(ret'.arg) : cache'[k] = LastValue(ret'.arg, k)
        /\ \A k \in DOMAIN cache \ MapKeys(ret'.arg) : cache'[k] = cache[k]
        /\ (ret'.arg.isNone \/ ret'.arg.items = <<>>) => cache' = cache
      ]_vars

\* A seed with a non-empty dict over a cache that holds another key.
C3_Witness ==
    /\ ret.op = "seed"
    /\ ret.old
    /\ MapKeys(ret.arg) # {}
    /\ \E k \in DOMAIN cache : k \notin MapKeys(ret.arg)

\* C4: the snapshot of a refresh that ran alone has as key set exactly the
\* keys of its seed united with the requested keys whose ensure succeeded.
C4_RefreshSnapshotKeys ==
    (ret.op = "refresh" /\ ret.clean) =>
        DOMAIN snapshot(cache) = ret.seeded \cup ret.ok

\* A refresh that ran alone, dropped an older key and fetched a new one.
C4_Witness ==
    /\ ret.op = "refresh"
    /\ ret.clean
    /\ ret.old
    /\ ret.ok \ ret.seeded # {}
    /\ DOMAIN cache = ret.seeded \cup ret.ok

\* C5: build() resets the cached gvars: a key that was cached before the
\* build and is not among the built profile's merged gvars is absent
\* afterwards (get_local returns None for it).
C5_BuildResetsCache ==
    [][ret'.op = "build" =>
        \A k \in RawKeys :
            (/\ Str(k) \in DOMAIN cache
             /\ Str(k) \notin MapKeys(ProfileGvars(ret'.profile)))
                => get_local(cache', k) = None
      ]_vars


\* C29: a reset is not undone by a fetch that was in flight when it ran.
\* When reset, or a refresh that returns at once, has replaced the cache
\* while an ensure(k) of another caller was suspended on its GET, the
\* answer to that GET puts nothing into the cache: the cache stays what
\* the reset made it.
C29_StaleFetchDiscarded ==
    [][\A p \in Procs :
        (/\ procs[p].pc = "get"
         /\ procs[p].op = "ensure"
         /\ ret.op \in {"reset", "refresh"}
         /\ procs'[p].pc = "idle")
        => cache' = cache
    ]_vars


(***************************************************************************)
(* The registry lookup as a step.                                          *)
(***************************************************************************)

\* _resolve_type_key(key, receiver)
ResolveKey(key, receiver) ==
    /\ last' = [NoStep EXCEPT !.op = "resolve_type_key",
                              !.key = key,
                              !.receiver = receiver,
                              !.resolved = _resolve_type_key(key, receiver)]
    /\ UNCHANGED <<gvarVars, meta_cache, type_map, assigned, docVars>>

NextRegistry ==
    \E key \in TypeKeys \cup {"foo"}, receiver \in TypeKeys \cup {"foo", None} :
        ResolveKey(key, receiver)

\* The registry is there once the module is imported, before anybody
\* has asked for metadata.
InitRegistry ==
    /\ FreshResolver
    /\ config = [enable_gvar_fetch |-> FALSE, token |-> None]
    /\ FreshDocument
    /\ meta_cache = <<>>
    /\ remote = <<>>

SpecRegistry == InitRegistry /\ [][NextRegistry]_vars

\* C9: _resolve_type_key returns None for a key that is not registered,
\* the key itself for a registered key declared without parents, and for a
\* key declared with parents the key when the receiver type is one of those
\* parents and None otherwise (also when no receiver is given).
C9_ResolveTypeKey ==
    last.op = "resolve_type_key" =>
        LET declared == {i \in 1..Len(TYPE_SPECS) :
                            TYPE_SPECS[i].name = last.key}
        IN
        IF declared = {} THEN last.resolved = None
        ELSE \A i \in declared :
                IF TYPE_SPECS[i].parents = <<>>
                THEN last.resolved = last.key
                ELSE IF \E j \in 1..Len(TYPE_SPECS[i].parents) :
                            TYPE_SPECS[i].parents[j] = last.receiver
                     THEN last.resolved = last.key
                     ELSE last.resolved = None

\* A key declared with parents was resolved against one of them.
C9_Witness ==
    /\ last.op = "resolve_type_key"
    /\ last.key = "channel"
    /\ last.receiver = "ctx"
    /\ last.resolved = "channel"


(***************************************************************************)
(* Reading the type metadata.                                              *)
(***************************************************************************)

\* _type_meta_map().get(type_name, TypeMeta(attrs={}, methods={}, ...))
_type_meta(type_name) ==
    IF type_name \in DOMAIN meta_cache THEN meta_cache[type_name]
    ELSE [attrs |-> <<>>, methods |-> {}, element_type |-> ""]


(***************************************************************************)
(* Type inference (completions.py, _TypeInferencer).  The statements are   *)
(* assignments to one name and if/else statements; the expressions are     *)
(* names, calls without arguments, attributes, subscripts by a literal     *)
(* and literals.                                                           *)
(***************************************************************************)

Name(id) == Node("Name", id, "", <<>>)
Call(func) == Node("Call", "", "", <<func>>)
Attribute(value, attr) == Node("Attribute", attr, "", <<value>>)
Subscript(value, slice) == Node("Subscript", "", "", <<value, slice>>)
Constant(value, type) == Node("Constant", value, type, <<>>)
Assign(target, value) == Node("Assign", "", "", <<Name(target), value>>)
If(body, orelse) == Node("If", "", "", <<body, orelse>>)

\* f"{name}.__element__"
ElementKey(name) == name \o ".__element__"

\* dict.get(key): None when the key is absent.
Get(mapping, key) == IF key \in DOMAIN mapping THEN mapping[key] ELSE None

\* None unless the node is a str or int literal, then the literal.
_literal_key(node) ==
    IF node.k = "Constant" /\ node.t \in {"str", "int"} THEN node
    ELSE NoNode

_subscript_type(tm, base_expr, key_literal, base_type, base_elem) ==
    LET base_name == IF base_expr.k = "Name" THEN base_expr.s ELSE None
        dict_key == base_name \o "." \o key_literal.s
        named == IF base_name # None /\ Falsy(base_elem)
                 THEN Get(tm, ElementKey(base_name)) ELSE base_elem
        meta == _type_meta(base_type)
        is_attr == /\ key_literal # NoNode
                   /\ key_literal.t = "str"
                   /\ key_literal.s \in DOMAIN meta.attrs
        elem_hint == IF Falsy(base_type) THEN named
                     ELSE IF Falsy(named) THEN meta.element_type ELSE named
    IN  IF /\ base_name # None
           /\ key_literal # NoNode
           /\ dict_key \in DOMAIN tm
        THEN <<tm[dict_key], Get(tm, ElementKey(dict_key))>>
        ELSE IF /\ ~Falsy(base_type)
                /\ is_attr
                /\ meta.attrs[key_literal.s].type_name # ""
        THEN <<meta.attrs[key_literal.s].type_name,
               IF meta.attrs[key_literal.s].element_type = "" THEN None
               ELSE meta.attrs[key_literal.s].element_type>>
        ELSE IF /\ ~Falsy(base_type)
                /\ is_attr
                /\ meta.attrs[key_literal.s].element_type # ""
        THEN <<base_type, meta.attrs[key_literal.s].element_type>>
        ELSE IF ~Falsy(elem_hint) THEN <<elem_hint, None>>
        ELSE <<base_type, None>>

RECURSIVE _value_type(_, _)
RECURSIVE IterElems(_, _, _, _)
RECURSIVE IterElem(_, _, _, _, _)

\* The loop of _iterable_element_from_values over the values still to
\* do: elem_type and nested_elem are what the values before them gave.
IterElems(tm, values, elem_type, nested_elem) ==
    IF values = <<>> THEN <<elem_type, nested_elem>>
    ELSE IterElem(tm, Tail(values), elem_type, nested_elem,
                  _value_type(tm, Head(values)))

\* One turn of that loop: val is <<val_type, inner_elem>> of the value.
IterElem(tm, rest, elem_type, nested_elem, val) ==
    LET val_type == val[1]
        inner_elem == val[2]
        first == elem_type = None
        nested == IF first THEN inner_elem ELSE nested_elem
    IN  IF Falsy(val_type) THEN <<None, None>>
        ELSE IF ~first /\ elem_type # val_type THEN <<None, None>>
        ELSE IterElems(tm, rest, val_type,
                       IF Falsy(inner_elem) THEN nested
                       ELSE IF nested = None THEN inner_elem
                       ELSE IF nested # inner_elem THEN None
                       ELSE nested)

\* The type of the first value, whatever the others are.
_iterable_element_from_first(tm, values) ==
    IF values = <<>> THEN <<None, None>>
    ELSE _value_type(tm, Head(values))

_iterable_element_from_values(tm, values) ==
    IterElems(tm, values, None, None)

\* The keys and the values of a dict literal, whose children are its keys
\* followed by its values.
DictKeys(node) == SubSeq(node.kids, 1, Len(node.kids) \div 2)
DictValues(node) ==
    SubSeq(node.kids, Len(node.kids) \div 2 + 1, Len(node.kids))

\* x.get(key): what the subscript x[key] gives, else the element type of
\* x, else nothing.  base is <<val_type, elem_type>> of x.
GetFound(base, found) ==
    IF ~Falsy(found[1]) THEN found
    ELSE IF ~Falsy(base[2]) THEN <<base[2], None>>
    ELSE <<None, None>>

GetCall(tm, value, base) ==
    GetFound(base, _subscript_type(tm, value.kids[1].kids[1],
                                   _literal_key(value.kids[2]),
                                   base[1], base[2]))

\* A ternary: t and e are <<val_type, elem_type>> of its two operands.
IfExpMerge(t, e) ==
    LET t_or_e(i) == IF ~Falsy(t[i]) THEN t[i] ELSE e[i]
    IN  IF ~Falsy(t[1]) /\ ~Falsy(e[1]) /\ t[1] = e[1]
        THEN <<t[1],
               IF ~Falsy(t[2]) /\ ~Falsy(e[2]) /\ t[2] # e[2]
               THEN None ELSE t_or_e(2)>>
        ELSE <<t_or_e(1), t_or_e(2)>>

\* <<val_type, elem_type>> of an expression under the environment tm.
_value_type(tm, value) ==
    CASE value.k = "Call" /\ value.kids[1].k = "Name" ->
            LET id == value.kids[1].s
            IN  IF id \in {"character", "combat"} THEN <<id, None>>
                ELSE IF id = "vroll" THEN <<"SimpleRollResult", None>>
                ELSE IF id = "argparse" THEN <<"ParsedArguments", None>>
                ELSE IF id = "range" THEN <<"range", "int">>
                ELSE IF id \in {"list", "dict", "str"} THEN <<id, None>>
                ELSE <<None, None>>
      [] value.k = "Call" /\ value.kids[1].k = "Attribute" ->
            IF value.kids[1].s = "get" /\ Len(value.kids) > 1
                                       /\ value.kids[2].k # "keyword"
            THEN GetCall(tm, value, _value_type(tm, value.kids[1].kids[1]))
            ELSE <<None, None>>
      [] value.k = "List" ->
            <<"list", _iterable_element_from_values(tm, value.kids)[1]>>
      [] value.k = "Tuple" ->
            <<"tuple", _iterable_element_from_values(tm, value.kids)[1]>>
      [] value.k = "Set" ->
            <<"set", _iterable_element_from_values(tm, value.kids)[1]>>
      [] value.k = "Dict" ->
            <<"dict", _iterable_element_from_values(tm, DictValues(value))[1]>>
      [] value.k = "Subscript" ->
            \* _subscript_value_type
            LET base == _value_type(tm, value.kids[1])
            IN  _subscript_type(tm, value.kids[1],
                                _literal_key(value.kids[2]),
                                base[1], base[2])
      [] value.k = "Constant" ->
            IF value.t = "str" THEN <<"str", None>> ELSE <<None, None>>
      [] value.k = "Name" ->
            IF value.s \in DOMAIN tm
            THEN <<tm[value.s], Get(tm, ElementKey(value.s))>>
            ELSE IF value.s \in {"character", "combat", "ctx"}
            THEN <<value.s, None>>
            ELSE <<None, None>>
      [] value.k = "Attribute" ->
            LET attr_name == value.s
                inner == value.kids[1]
                named == IF inner.k = "Name"
                         THEN <<Get(tm, inner.s),
                                Get(tm, ElementKey(inner.s))>>
                         ELSE <<None, None>>
                base == IF named[1] = None THEN _value_type(tm, inner)
                        ELSE named
                base_type == base[1]
                base_elem == base[2]
                meta == _type_meta(base_type)
                resolved_attr_type == _resolve_type_key(attr_name, base_type)
            IN  IF Falsy(base_type) THEN <<None, None>>
                ELSE IF /\ attr_name \in DOMAIN meta.attrs
                        /\ meta.attrs[attr_name].type_name # ""
                THEN <<meta.attrs[attr_name].type_name,
                       IF meta.attrs[attr_name].element_type = ""
                       THEN None
                       ELSE meta.attrs[attr_name].element_type>>
                ELSE IF /\ attr_name \in DOMAIN meta.attrs
                        /\ meta.attrs[attr_name].element_type # ""
                THEN <<base_type, meta.attrs[attr_name].element_type>>
                ELSE IF ~Falsy(base_elem) THEN <<base_elem, None>>
                ELSE IF ~Falsy(resolved_attr_type)
                THEN <<resolved_attr_type, None>>
                ELSE <<None, None>>
      [] value.k = "IfExp" ->
            IfExpMerge(_value_type(tm, value.kids[2]),
                       _value_type(tm, value.kids[3]))
      [] OTHER -> <<None, None>>

\* One item of a dict literal: the type and the element type of its value
\* go on record under `var_name.<key>` when its key is a literal.
RecordKey(tm, var_name, key_literal, val) ==
    LET dict_key == var_name \o "." \o key_literal.s
        typed == IF ~Falsy(val[1]) THEN Put(tm, dict_key, val[1]) ELSE tm
    IN  IF key_literal = NoNode THEN tm
        ELSE IF ~Falsy(val[2]) THEN Put(typed, ElementKey(dict_key), val[2])
        ELSE typed

RECURSIVE RecordKeys(_, _, _, _)
\* The loop of _record_dict_key_types over the items still to do.
RecordKeys(tm, var_name, keys, values) ==
    IF keys = <<>> \/ values = <<>> THEN tm
    ELSE RecordKeys(RecordKey(tm, var_name, _literal_key(Head(keys)),
                              _value_type(tm, Head(values))),
                    var_name, Tail(keys), Tail(values))

_record_dict_key_types(tm, var_name, value) ==
    IF value.k # "Dict" THEN tm
    ELSE RecordKeys(tm, var_name, DictKeys(value), DictValues(value))

RECURSIVE _bind_target(_, _, _, _, _)
RECURSIVE BindEach(_, _, _, _, _)

\* The loop of _bind_target over the elements of a tuple or list target.
BindEach(tm, elts, val_type, elem_type, source) ==
    IF elts = <<>> THEN tm
    ELSE BindEach(_bind_target(tm, Head(elts), val_type, elem_type, source),
                  Tail(elts), val_type, elem_type, source)

_bind_target(tm, target, val_type, elem_type, source) ==
    IF target.k \in {"Tuple", "List"}
    THEN BindEach(tm, target.kids, val_type, elem_type, source)
    ELSE IF target.k # "Name" THEN tm
    ELSE LET bound == IF ~Falsy(val_type) THEN Put(tm, target.s, val_type)
                      ELSE tm
             with_elem == IF ~Falsy(elem_type)
                          THEN Put(bound, ElementKey(target.s), elem_type)
                          ELSE bound
         IN  IF source # NoNode
             THEN _record_dict_key_types(with_elem, target.s, source)
             ELSE with_elem

visit_Assign(tm, node) ==
    LET value == _value_type(tm, node.kids[2])
    IN  _bind_target(tm, node.kids[1], value[1], value[2], node.kids[2])


RECURSIVE MergeKeys(_, _, _, _, _)
\* The loop of _merge_branch_types over the keys still to do.
MergeKeys(merged, keys, base, left, right) ==
    IF keys = {} THEN merged
    ELSE LET key == CHOOSE k \in keys : TRUE
             l_val == Get(left, key)
             r_val == Get(right, key)
             next ==
                IF ~Falsy(l_val) /\ ~Falsy(r_val) /\ l_val = r_val
                THEN Put(merged, key, l_val)
                ELSE IF key \in DOMAIN base THEN Put(merged, key, base[key])
                ELSE IF ~Falsy(l_val) /\ Falsy(r_val)
                THEN Put(merged, key, l_val)
                ELSE IF ~Falsy(r_val) /\ Falsy(l_val)
                THEN Put(merged, key, r_val)
                ELSE [k \in DOMAIN merged \ {key} |-> merged[k]]
         IN  MergeKeys(next, keys \ {key}, base, left, right)

\* A merge in which the if branch wins every disagreement.
_merge_branch_types_left(base, left, right) ==
    [key \in DOMAIN base \cup DOMAIN left \cup DOMAIN right |->
        IF key \in DOMAIN left THEN left[key]
        ELSE IF key \in DOMAIN right THEN right[key]
        ELSE base[key]]

_merge_branch_types(base, left, right) ==
    MergeKeys(base, DOMAIN left \cup DOMAIN right, base, left, right)

RECURSIVE visit(_, _)
RECURSIVE _visit_block(_, _)
RECURSIVE visit_For(_, _)

\* Each branch is walked with its own copy of the environment before the
\* statement.
visit_If(tm, node) ==
    LET base_map == tm
        body_map == _visit_block(node.kids[1], base_map)
        orelse_seed == base_map
        orelse_map == IF node.kids[2] # <<>>
                      THEN _visit_block(node.kids[2], orelse_seed)
                      ELSE orelse_seed
    IN  _merge_branch_types(base_map, body_map, orelse_map)

_visit_block(nodes, seed_map) ==
    IF nodes = <<>> THEN seed_map
    ELSE _visit_block(Tail(nodes), visit(seed_map, Head(nodes)))

\* The target gets the element type of what is iterated; the body is
\* then visited by the same inferencer (generic_visit).
visit_For(tm, node) ==
    LET iter == node.kids[2]
        elem == _value_type(tm, iter)[2]
        elem_type == IF Falsy(elem) /\ iter.k = "Name"
                     THEN Get(tm, ElementKey(iter.s)) ELSE elem
    IN  _visit_block(SubSeq(node.kids, 3, Len(node.kids)),
                     _bind_target(tm, node.kids[1], elem_type, None, NoNode))

\* NodeVisitor.visit: dispatch on the class of the statement.
visit(tm, node) ==
    CASE node.k = "Assign" -> visit_Assign(tm, node)
      [] node.k = "If" -> visit_If(tm, node)
      [] node.k = "For" -> visit_For(tm, node)
      [] OTHER -> tm

RECURSIVE Targets(_)
\* The names a statement assigns to, in its branches too
\* (diagnostics.py, _collect_assigned_names).
Targets(node) ==
    CASE node.k = "Assign" -> {node.kids[1].s}
      [] node.k = "If" ->
            UNION {Targets(stmt) :
                    stmt \in Range(node.kids[1]) \cup Range(node.kids[2])}
      [] node.k = "For" ->
            (IF node.kids[1].k = "Name" THEN {node.kids[1].s}
             ELSE {elt.s : elt \in Range(node.kids[1].kids)})
            \cup UNION {Targets(node.kids[i]) : i \in 3..Len(node.kids)}
      [] OTHER -> {}


(***************************************************************************)
(* Receivers (completions.py, _resolve_type_name).  The source text of a   *)
(* receiver is kept as its tokens: identifiers, ".", "()" and one token    *)
(* per subscript.                                                          *)
(***************************************************************************)

\* The literals that subscript an expression are kept as one token each.
BracketTokens == {"[0]"}

RECURSIVE _expr_to_str(_)
\* ast.unparse, as tokens.
_expr_to_str(expr) ==
    CASE expr.k = "Name" -> <<expr.s>>
      [] expr.k = "Call" -> _expr_to_str(expr.kids[1]) \o <<"()">>
      [] expr.k = "Attribute" -> _expr_to_str(expr.kids[1]) \o <<".", expr.s>>
      [] expr.k = "Subscript" ->
            _expr_to_str(expr.kids[1]) \o <<"[" \o expr.kids[2].s \o "]">>
      [] expr.k = "Constant" -> <<expr.s>>
      [] OTHER -> <<>>

RECURSIVE Join(_)
\* The text the tokens spell.
Join(tokens) ==
    IF tokens = <<>> THEN "" ELSE Head(tokens) \o Join(Tail(tokens))

RECURSIVE RStripParens(_)
\* str.rstrip("()")
RStripParens(tokens) ==
    IF tokens # <<>> /\ tokens[Len(tokens)] = "()"
    THEN RStripParens(SubSeq(tokens, 1, Len(tokens) - 1))
    ELSE tokens

RECURSIVE _resolve_type_name(_, _)
\* No receiver here is a .get('key') call, so DICT_GET_RE never matches.
_resolve_type_name(receiver, mapping) ==
    LET \* str.rfind("."), 0 when there is no dot
        LastDot(tokens) ==
            IF \E i \in 1..Len(tokens) : tokens[i] = "."
            THEN CHOOSE i \in 1..Len(tokens) :
                    /\ tokens[i] = "."
                    /\ \A j \in (i + 1)..Len(tokens) : tokens[j] # "."
            ELSE 0
        \* str.split("[", 1)[0]
        BeforeBracket(tokens) ==
            IF \E i \in 1..Len(tokens) : tokens[i] \in BracketTokens
            THEN SubSeq(tokens, 1,
                        (CHOOSE i \in 1..Len(tokens) :
                            /\ tokens[i] \in BracketTokens
                            /\ \A j \in 1..(i - 1) :
                                    tokens[j] \notin BracketTokens) - 1)
            ELSE tokens
        n == Len(receiver)
        bracketed == n > 0 /\ receiver[n] \in BracketTokens
        indexed == SubSeq(receiver, 1, n - 1)
        elem_hint == Get(mapping, ElementKey(Join(indexed)))
        indexed_type == _resolve_type_name(indexed, mapping)
        stripped == RStripParens(receiver)
        dot == LastDot(stripped)
        base_expr == SubSeq(stripped, 1, dot - 1)
        attr_name == SubSeq(stripped, dot + 1, Len(stripped))
        base_type == _resolve_type_name(base_expr, mapping)
        meta == _type_meta(base_type)
        attr_key == Join(BeforeBracket(attr_name))
        has_attr == dot > 0 /\ base_type # "" /\ attr_key \in DOMAIN meta.attrs
        text == Join(stripped)
        elem_key == ElementKey(text)
        resolved_receiver == _resolve_type_key(text, None)
        resolved_tail == _resolve_type_key(attr_key, None)
    IN  IF bracketed /\ ~Falsy(elem_hint) THEN elem_hint
        ELSE IF bracketed /\ indexed_type # ""
        THEN IF _type_meta(indexed_type).element_type # ""
             THEN _type_meta(indexed_type).element_type
             ELSE indexed_type
        ELSE IF has_attr /\ meta.attrs[attr_key].element_type # ""
        THEN meta.attrs[attr_key].element_type
        ELSE IF has_attr /\ meta.attrs[attr_key].type_name # ""
        THEN meta.attrs[attr_key].type_name
        ELSE IF text \in DOMAIN mapping THEN mapping[text]
        ELSE IF elem_key \in DOMAIN mapping THEN mapping[elem_key]
        ELSE IF ~Falsy(resolved_receiver) THEN resolved_receiver
        ELSE IF ~Falsy(resolved_tail) THEN resolved_tail
        ELSE text


(***************************************************************************)
(* The consumers of the resolver: attribute completion and hover           *)
(* (completions.py) and the property-call heuristic (diagnostics.py).      *)
(* What each returns is kept as a set of items.                            *)
(***************************************************************************)

Item(kind, label, detail) == [kind |-> kind, label |-> label, detail |-> detail]

\* The items of every attribute and method of a type.  The cursor is right
\* after the dot, so the prefix is empty and filters nothing.
MetaItems(type_key) ==
    {Item("Field", name, type_key \o "()") :
        name \in DOMAIN _type_meta(type_key).attrs}
    \cup {Item("Method", name, "") : name \in _type_meta(type_key).methods}

\* Completion without the check on bare identifiers.
_attribute_completions_unguarded(receiver, type_map_arg) ==
    MetaItems(_resolve_type_name(receiver, type_map_arg))

_attribute_completions(receiver, type_map_arg) ==
    LET type_key == _resolve_type_name(receiver, type_map_arg)
        \* IDENT_RE.fullmatch(receiver)
        is_identifier ==
            /\ Len(receiver) = 1
            /\ receiver[1] \notin {".", "()"} \cup BracketTokens
    IN  IF /\ is_identifier
           /\ (DOMAIN type_map_arg = {}
               \/ Join(receiver) \notin DOMAIN type_map_arg)
           /\ type_key = Join(receiver)
        THEN {}
        ELSE MetaItems(type_key)

\* hover_for_position with the cursor on `attr_prefix` after `receiver.`.
\* The word under the cursor names no variable, signature or gvar of the
\* document, so the hover on a word finds nothing.
hover_for_position(receiver, attr_prefix, type_map_arg) ==
    LET inferred == _resolve_type_name(receiver, type_map_arg)
        meta == _type_meta(inferred)
    IN  IF attr_prefix \in DOMAIN meta.attrs
        THEN {Item("Field", attr_prefix, inferred \o "()." \o attr_prefix)}
        ELSE IF attr_prefix \in meta.methods
        THEN {Item("Method", attr_prefix, "")}
        ELSE {}

_resolve_expr_type(expr, type_map_arg) ==
    IF _expr_to_str(expr) = <<>> THEN ""
    ELSE _resolve_type_name(_expr_to_str(expr), type_map_arg)

\* The finding for a property that is called like a method.
_property_call_diagnostics(node, type_map_arg) ==
    IF node.kids[1].k # "Attribute" THEN {}
    ELSE LET base_type == _resolve_expr_type(node.kids[1].kids[1],
                                             type_map_arg)
             meta == _type_meta(base_type)
             attr == node.kids[1].s
         IN  IF base_type = "" THEN {}
             ELSE IF attr \in meta.methods \/ attr \notin DOMAIN meta.attrs
             THEN {}
             ELSE {Item("Diagnostic", attr,
                        Join(_expr_to_str(node.kids[1].kids[1])))}


(***************************************************************************)
(* Statements reach the inferencer one at a time, in document order;       *)
(* a request is answered under the environment of the statements so far.   *)
(***************************************************************************)

MaxBlock == 1       \* statements in one branch of an if/else

character_call == Call(Name("character"))
combat_call == Call(Name("combat"))
none_literal == Constant("None", "NoneType")
ctx_channel == Attribute(Name("ctx"), "channel")
character_spellbook == Attribute(character_call, "spellbook")
combat_combatants == Attribute(combat_call, "combatants")
first_effect ==
    Subscript(Attribute(Subscript(combat_combatants, Constant("0", "int")),
                        "effects"),
              Constant("0", "int"))

\* The statements inside the branches of an if/else.
BranchStmts ==
    {Assign("x", character_call), Assign("x", combat_call),
     Assign("y", Name("x"))}

IfStmts ==
    LET blocks == SeqsUpTo(BranchStmts, MaxBlock)
    IN  {If(body, orelse) : body \in blocks \ {<<>>}, orelse \in blocks}

\* The statements of the documents with branches.
InferStmts ==
    {Assign("x", character_call), Assign("x", none_literal),
     Assign("x", combat_combatants)} \cup IfStmts

\* The statements of the documents whose variables are named like types.
ReceiverStmts ==
    {Assign("x", character_spellbook), Assign("x", ctx_channel),
     Assign("x", first_effect), Assign("x", none_literal),
     Assign("x", Name("channel")),
     Assign("channel", none_literal), Assign("channel", ctx_channel),
     Assign("channel", Constant("general", "str")),
     Assign("stats", none_literal), Assign("stats", Attribute(character_call, "stats"))}

\* The receivers and attributes of the requests.
ReceiverExprs ==
    {Name("x"), Name("y"), Name("channel"), Name("stats"), Name("category"),
     ctx_channel, character_spellbook, first_effect}

\* The inferencer visits the next statement of the document.
VisitStmt(stmt) ==
    /\ type_map' = visit(type_map, stmt)
    /\ assigned' = assigned \cup Targets(stmt)
    /\ last' = [NoStep EXCEPT !.op = stmt.k, !.stmt = stmt]
    /\ UNCHANGED <<gvarVars, meta_cache, docVars>>

\* Attribute completion right after `expr.`
Complete(expr) ==
    /\ last' = [NoStep EXCEPT
                    !.op = "completion",
                    !.expr = expr,
                    !.resolved = _resolve_type_name(_expr_to_str(expr), type_map),
                    !.items = _attribute_completions(_expr_to_str(expr), type_map)]
    /\ UNCHANGED <<gvarVars, meta_cache, type_map, assigned, docVars>>

\* Hover on `attr` in `expr.attr`
Hover(expr, attr) ==
    /\ last' = [NoStep EXCEPT
                    !.op = "hover",
                    !.expr = expr,
                    !.attr = attr,
                    !.resolved = _resolve_type_name(_expr_to_str(expr), type_map),
                    !.items = hover_for_position(_expr_to_str(expr), attr,
                                                 type_map)]
    /\ UNCHANGED <<gvarVars, meta_cache, type_map, assigned, docVars>>

\* The API-misuse pass meets the call `expr.attr()`
PropertyCall(expr, attr) ==
    /\ last' = [NoStep EXCEPT
                    !.op = "property_call",
                    !.expr = expr,
                    !.attr = attr,
                    !.resolved = _resolve_expr_type(expr, type_map),
                    !.items = _property_call_diagnostics(
                                    Call(Attribute(expr, attr)), type_map)]
    /\ UNCHANGED <<gvarVars, meta_cache, type_map, assigned, docVars>>

NextInfer ==
    \/ \E stmt \in InferStmts : VisitStmt(stmt)
    \/ \E expr \in {Name("x"), Name("y")} : Complete(expr)

SpecInfer == InitDefault /\ [][NextInfer]_vars

NextReceiver ==
    \/ \E stmt \in ReceiverStmts : VisitStmt(stmt)
    \/ \E expr \in ReceiverExprs : Complete(expr)
    \/ \E expr \in ReceiverExprs, attr \in {"topic", "strength", "find"} : Hover(expr, attr)
    \/ \E expr \in ReceiverExprs, attr \in {"topic", "strength", "find"} : PropertyCall(expr, attr)

SpecReceiver == InitDefault /\ [][NextReceiver]_vars

\* The values of the documents with literals, ternaries and subscripts.
character_list == Node("List", "", "", <<character_call>>)
combat_list == Node("List", "", "", <<combat_call>>)

ValueExprs ==
    LET IfExp(body, orelse) ==
            Node("IfExp", "", "", <<Name("c"), body, orelse>>)
    IN  {character_call, none_literal,
         IfExp(character_call, combat_call),
         IfExp(character_call, character_call),
         IfExp(none_literal, combat_call),
         IfExp(character_list, combat_list),
         Node("List", "", "", <<character_call, character_call>>),
         Node("List", "", "", <<character_call, combat_call>>),
         Node("List", "", "", <<character_call, none_literal>>),
         Node("List", "", "", <<>>),
         Node("Tuple", "", "", <<combat_call, combat_call>>),
         Node("Set", "", "", <<character_call>>)}

\* d = {"a": character(), "b": [combat()]}
dict_literal ==
    Node("Dict", "", "",
         <<Constant("a", "str"), Constant("b", "str"),
           character_call, combat_list>>)

\* What y is assigned: subscripts of x, of d and of host values.
SubscriptExprs ==
    {Subscript(Name("d"), Constant("a", "str")),
     Subscript(Name("d"), Constant("b", "str")),
     Subscript(Name("x"), Constant("0", "int")),
     Subscript(character_call, Constant("0", "int")),
     Subscript(Attribute(character_call, "attacks"), Constant("0", "int")),
     Subscript(Name("u"), Constant("0", "int"))}

ValueStmts ==
    {Assign("x", value) : value \in ValueExprs}
    \cup {Assign("d", dict_literal), Assign("d", character_call)}
    \cup {Assign("y", value) : value \in SubscriptExprs}
    \cup {Node("For", "", "", <<Name("x"), Name("d")>>),
          Node("For", "", "", <<Name("x"), Name("u"),
                                Assign("d", Name("x"))>>)}

NextValues == \E stmt \in ValueStmts : VisitStmt(stmt)

SpecValues == InitDefault /\ [][NextValues]_vars


(***************************************************************************)
(* Properties of the inferencer and of the consumers of the resolver       *)
(***************************************************************************)

Bound(env, key) == key \in DOMAIN env

\* The conflicting assignment of the two call results to x.
ConflictingIf == If(<<Assign("x", character_call)>>,
                    <<Assign("x", combat_call)>>)

\* C6: after an if/else the environment is the per-key merge of the
\* environment before it with the environments of the two branches, each
\* walked from a copy of the environment before: a key both branches bind
\* to the same type has that type; otherwise a key bound before keeps its
\* type; otherwise a key one branch alone binds has that branch's type;
\* and a key new in both branches with different types is absent.  After
\* `if c: x = character() else: x = combat()` with x unbound before,
\* completion on x offers nothing.
C6_BranchMerge ==
    [][last'.op = "If" =>
        LET pre == type_map
            post == type_map'
            left == _visit_block(last'.stmt.kids[1], pre)
            right == _visit_block(last'.stmt.kids[2], pre)
        IN  /\ DOMAIN post \subseteq
                    DOMAIN pre \cup DOMAIN left \cup DOMAIN right
            /\ \A key \in DOMAIN pre \cup DOMAIN left \cup DOMAIN right :
                IF Bound(left, key) /\ Bound(right, key)
                   /\ left[key] = right[key]
                THEN Bound(post, key) /\ post[key] = left[key]
                ELSE IF Bound(pre, key)
                THEN Bound(post, key) /\ post[key] = pre[key]
                ELSE IF Bound(left, key) /\ ~Bound(right, key)
                THEN Bound(post, key) /\ post[key] = left[key]
                ELSE IF Bound(right, key) /\ ~Bound(left, key)
                THEN Bound(post, key) /\ post[key] = right[key]
                ELSE ~Bound(post, key)
            /\ (last'.stmt = ConflictingIf /\ ~Bound(pre, "x")) =>
                    /\ ~Bound(post, "x")
                    /\ _attribute_completions(<<"x">>, post) = {}
    ]_vars

\* The conflicting if/else was visited with x unbound before it: x is
\* unbound after it and completion on x offers nothing.
C6_Witness ==
    /\ last.op = "If"
    /\ last.stmt = ConflictingIf
    /\ ~Bound(type_map, "x")
    /\ _attribute_completions(<<"x">>, type_map) = {}


\* C7: a bare identifier without an entry in the type environment is never
\* taken for a host type: for a variable that only shares the name of a
\* TypeKey, completion, hover and the API-misuse heuristics all find
\* nothing.
C7_BareIdentifierUnresolved ==
    (/\ last.op \in {"completion", "hover", "property_call"}
     /\ last.expr.k = "Name"
     /\ last.expr.s \in assigned
     /\ ~Bound(type_map, last.expr.s))
    => last.items = {}

\* The fields completion lists for a host type, read off its class.
HostFields(type_key) ==
    {Item("Field", name, type_key \o "()") :
        name \in Range(API(_type_cls(type_key)).ATTRS)}

C24_TernaryMergesLikeBranches ==
    [][(last'.op = "Assign" /\ last'.stmt.kids[2].k = "IfExp") =>
        LET pre == type_map
            post == type_map'
            name == last'.stmt.kids[1].s
            a == _value_type(pre, last'.stmt.kids[2].kids[2])[1]
            b == _value_type(pre, last'.stmt.kids[2].kids[3])[1]
        IN  IF ~Falsy(a) /\ ~Falsy(b)
            THEN IF a = b THEN Get(post, name) = a
                 ELSE ~Bound(pre, name) => ~Bound(post, name)
            ELSE IF ~Falsy(a) THEN Get(post, name) = a
            ELSE IF ~Falsy(b) THEN Get(post, name) = b
            ELSE ~Bound(pre, name) => ~Bound(post, name)
    ]_vars

\* C25: a list, tuple or set literal has the element type T exactly when
\* it is not empty and every element infers to the same TypeKey T; when an
\* element is unresolved or two elements infer different TypeKeys it has
\* no element type, and the assignment records no `name.__element__`.
C25_HomogeneousLiteral ==
    [][(last'.op = "Assign"
        /\ last'.stmt.kids[2].k \in {"List", "Tuple", "Set"}) =>
        LET pre == type_map
            post == type_map'
            name == last'.stmt.kids[1].s
            literal == last'.stmt.kids[2]
            types == [i \in 1..Len(literal.kids) |->
                        _value_type(pre, literal.kids[i])[1]]
            same == /\ literal.kids # <<>>
                    /\ \A i \in 1..Len(types) :
                            ~Falsy(types[i]) /\ types[i] = types[1]
        IN  /\ _value_type(pre, literal)[2] =
                    (IF same THEN types[1] ELSE None)
            /\ IF same THEN Get(post, ElementKey(name)) = types[1]
               ELSE Get(post, ElementKey(name)) = Get(pre, ElementKey(name))
            /\ Get(post, name) =
                    (CASE literal.k = "List" -> "list"
                       [] literal.k = "Tuple" -> "tuple"
                       [] literal.k = "Set" -> "set")
    ]_vars

\* `x = [character(), combat()]` was visited with no element type on
\* record for x: x is a list and still has no element type.
C25_Witness ==
    /\ last.op = "Assign"
    /\ last.stmt =
            Assign("x", Node("List", "", "", <<character_call, combat_call>>))
    /\ Get(type_map, "x") = "list"
    /\ ~Bound(type_map, ElementKey("x"))

\* C26: `y = base[key]` types y, in this order, by the type on record for
\* `base.<key>` when key is a literal and base an identifier; else by the
\* element type of base; else by the element type the registry declares
\* for the type of base; and when none of the three applies the subscript
\* is unresolved and y is left as it was.
C26_SubscriptPriority ==
    [][(last'.op = "Assign" /\ last'.stmt.kids[2].k = "Subscript") =>
        LET pre == type_map
            post == type_map'
            name == last'.stmt.kids[1].s
            base == last'.stmt.kids[2].kids[1]
            key == last'.stmt.kids[2].kids[2]
            literal == key.k = "Constant" /\ key.t \in {"str", "int"}
            dict_key == base.s \o "." \o key.s
            base_type == _value_type(pre, base)
            declared == _type_meta(base_type[1]).element_type
        IN  IF base.k = "Name" /\ literal /\ Bound(pre, dict_key)
            THEN Get(post, name) = pre[dict_key]
            ELSE IF ~Falsy(base_type[2])
            THEN Get(post, name) = base_type[2]
            ELSE IF ~Falsy(base_type[1]) /\ ~Falsy(declared)
            THEN Get(post, name) = declared
            ELSE Get(post, name) = Get(pre, name)
    ]_vars

\* C28: an assignment to a name replaces what was on record for it: when
\* the new value is unresolved the name has no type afterwards, when it
\* has no element type there is no `name.__element__`, and when it is not
\* a dict literal there is no `name.<key>`.
C28_RebindingForgets ==
    [][(last'.op = "Assign" /\ last'.stmt.kids[1].k = "Name") =>
        LET pre == type_map
            post == type_map'
            name == last'.stmt.kids[1].s
            value == _value_type(pre, last'.stmt.kids[2])
        IN  /\ Falsy(value[1]) => ~Bound(post, name)
            /\ Falsy(value[2]) => ~Bound(post, ElementKey(name))
            /\ last'.stmt.kids[2].k # "Dict" =>
                    \A key \in {"a", "b"} :
                        /\ ~Bound(post, name \o "." \o key)
                        /\ ~Bound(post, ElementKey(name \o "." \o key))
    ]_vars


(***************************************************************************)
(* Analysis of a document (diagnostics.py, DiagnosticProvider.analyze).    *)
(* A snippet is known by how the interpreter's parser takes it and by the  *)
(* passes that find something in it.  Each <drac2> block is one line of    *)
(* the document, and a finding is known by its pass and its line.          *)
(***************************************************************************)

MaxBlocks == 2      \* <drac2> blocks in a document

\* The six passes of _analyze_code, in the order they run.
Passes ==
    <<"unknown_names", "gvars", "imports", "call_args",
      "private_method_calls", "api_misuse">>

\* How a snippet parses: as written; only inside the synthetic function
\* (a top-level return); not at all; or the parser raises SyntaxError.
\* Its defects are the passes that find something in it.
Snippets ==
    [form : {"statements", "function_body", "broken", "python_error"},
     defects : SUBSET {"unknown_names", "private_method_calls"}]

\* A finding of a pass with the start of its range; one on a line has
\* character 0.
Finding(kind, line) == [kind |-> kind, line |-> line, character |-> 0]

\* parser.parse(code)
parse(code) ==
    CASE code.form = "statements" -> "body"
      [] code.form = "python_error" -> "SyntaxError"
      [] OTHER -> "DraconicSyntaxError"

\* parser.parse(wrapped), with wrapped, added = _wrap_draconic(code)
parse_wrapped(code) ==
    IF code.form \in {"statements", "function_body"} THEN "body"
    ELSE "DraconicSyntaxError"

_wrap_draconic_added == 1

\* A shift that leaves every finding on its line.
_shift_diagnostics_columns_only(diags, line_offset, char_offset) ==
    LET max(a, b) == IF a >= b THEN a ELSE b
    IN  [i \in 1..Len(diags) |->
            [diags[i] EXCEPT
                !.character =
                    max(@ + (IF diags[i].line = 0 THEN char_offset ELSE 0), 0)]]

\* A shift that moves the column on every line.
_shift_diagnostics_every_line(diags, line_offset, char_offset) ==
    LET max(a, b) == IF a >= b THEN a ELSE b
    IN  [i \in 1..Len(diags) |->
            [diags[i] EXCEPT
                !.line = max(@ + line_offset, 0),
                !.character = max(@ + char_offset, 0)]]

\* _shift_diagnostics with _shift_range: _shift_pos on the start of the
\* range (the end goes through the same function).
_shift_diagnostics(diags, line_offset, char_offset) ==
    LET max(a, b) == IF a >= b THEN a ELSE b
    IN  [i \in 1..Len(diags) |->
            [diags[i] EXCEPT
                !.line = max(@ + line_offset, 0),
                !.character =
                    max(@ + (IF diags[i].line = 0 THEN char_offset ELSE 0), 0)]]

RECURSIVE RunPasses(_, _, _)
\* The findings of the passes from the n-th on, on a body whose first
\* statement is on the given line.
RunPasses(code, n, line) ==
    IF n > Len(Passes) THEN <<>>
    ELSE (IF Passes[n] \in code.defects
          THEN <<Finding(Passes[n], line)>> ELSE <<>>)
         \o RunPasses(code, n + 1, line)

\* An _analyze_code that reports the error of both parse attempts.
_analyze_code_twice(code) ==
    IF parse(code) = "SyntaxError"
    THEN [diagnostics |-> <<Finding("syntax", 0)>>, passes |-> <<>>]
    ELSE IF parse(code) = "DraconicSyntaxError"
            /\ parse_wrapped(code) = "DraconicSyntaxError"
    THEN [diagnostics |-> <<Finding("syntax", 0), Finding("syntax", 0)>>,
          passes |-> <<>>]
    ELSE [diagnostics |-> RunPasses(code, 1, 0), passes |-> Passes]

\* What _analyze_code returns, and the passes it ran.
_analyze_code(code) ==
    IF parse(code) = "SyntaxError"
    THEN [diagnostics |-> <<Finding("syntax", 0)>>, passes |-> <<>>]
    ELSE IF parse(code) = "DraconicSyntaxError"
            /\ parse_wrapped(code) = "DraconicSyntaxError"
    THEN [diagnostics |-> <<Finding("syntax", 0)>>, passes |-> <<>>]
    ELSE LET line_shift == IF parse(code) = "DraconicSyntaxError"
                           THEN 0 - _wrap_draconic_added ELSE 0
             found == RunPasses(code, 1, 0 - line_shift)
         IN  [diagnostics |-> IF line_shift # 0
                              THEN _shift_diagnostics(found, line_shift, 0)
                              ELSE found,
              passes |-> Passes]

\* find_draconic_blocks: the blocks and their offsets.  The content of
\* each block of these documents starts a line.
find_draconic_blocks(doc) ==
    IF doc.tagged
    THEN [i \in 1..Len(doc.snippets) |->
            [code |-> doc.snippets[i], line_offset |-> i - 1,
             char_offset |-> 0]]
    ELSE <<>>

\* The source of a document without blocks, as one snippet.
WholeSource(doc) ==
    IF doc.snippets = <<>> THEN [form |-> "statements", defects |-> {}]
    ELSE doc.snippets[1]

RECURSIVE AnalyzeBlocks(_, _)
AnalyzeBlocks(blocks, n) ==
    IF n > Len(blocks)
    THEN [diagnostics |-> <<>>, passes |-> <<>>]
    ELSE LET block == blocks[n]
             block_diags == _analyze_code(block.code)
             rest == AnalyzeBlocks(blocks, n + 1)
         IN  [diagnostics |->
                _shift_diagnostics(block_diags.diagnostics, block.line_offset,
                                   block.char_offset) \o rest.diagnostics,
              passes |-> <<block_diags.passes>> \o rest.passes]

\* The source holds no argument placeholder for apply_argument_parsing to
\* replace.
analyze(doc) ==
    LET blocks == find_draconic_blocks(doc)
    IN  IF blocks = <<>>
        THEN [diagnostics |-> _analyze_code(WholeSource(doc)).diagnostics,
              passes |-> <<_analyze_code(WholeSource(doc)).passes>>]
        ELSE AnalyzeBlocks(blocks, 1)


\* A document without <drac2> tags is opened: the source is the snippet.
OpenPlain(code) ==
    /\ document' = [tagged |-> FALSE, snippets |-> <<code>>]
    /\ diagnostics' = <<>>
    /\ passes' = <<>>
    /\ last' = [NoStep EXCEPT !.op = "edit"]
    /\ UNCHANGED <<gvarVars, meta_cache, type_map, assigned, analyses, remote,
                   source_text>>

\* A <drac2> block is added at the end of the document.
AddBlock(code) ==
    /\ document.tagged \/ document.snippets = <<>>
    /\ Len(document.snippets) < MaxBlocks
    /\ document' = [tagged |-> TRUE,
                    snippets |-> Append(document.snippets, code)]
    /\ diagnostics' = <<>>
    /\ passes' = <<>>
    /\ last' = [NoStep EXCEPT !.op = "edit"]
    /\ UNCHANGED <<gvarVars, meta_cache, type_map, assigned, analyses, remote,
                   source_text>>

\* provider.analyze(source, ctx_data, gvar_resolver)
Analyze ==
    /\ diagnostics' = analyze(document).diagnostics
    /\ passes' = analyze(document).passes
    /\ last' = [NoStep EXCEPT !.op = "analyze"]
    /\ UNCHANGED <<gvarVars, meta_cache, type_map, assigned, document, analyses,
                   remote, source_text>>

NextAnalyze ==
    \/ \E code \in Snippets : OpenPlain(code)
    \/ \E code \in Snippets : AddBlock(code)
    \/ Analyze

SpecAnalyze == InitDefault /\ [][NextAnalyze]_vars

\* C10: a snippet that parses neither as written nor inside the synthetic
\* function gets exactly one finding, a syntax error, and none of the six
\* passes runs for it; every other snippet of the document has all six
\* passes run and its findings returned.
C10_SyntaxErrorStopsOneSnippet ==
    last.op = "analyze" =>
        LET \* the snippets; an empty source is one empty snippet
            snippets == IF document.snippets = <<>>
                        THEN <<WholeSource(document)>>
                        ELSE document.snippets
            line_of(n) == IF document.tagged THEN n - 1 ELSE 0
            found_on(line) == SelectSeq(diagnostics, LAMBDA d : d.line = line)
        IN
        /\ Len(passes) = Len(snippets)
        /\ \A n \in 1..Len(snippets) :
            LET code == snippets[n]
                found == found_on(line_of(n))
            IN  IF code.form \in {"broken", "python_error"}
                THEN /\ found = <<Finding("syntax", line_of(n))>>
                     /\ passes[n] = <<>>
                ELSE /\ Len(passes[n]) = 6
                     /\ Range(passes[n]) = Range(Passes)
                     /\ Len(found) = Cardinality(code.defects)
                     /\ {found[i].kind : i \in 1..Len(found)} = code.defects

\* A document of two blocks was analysed: the first parses in no way, the
\* second parses and has its finding returned after the syntax error.
C10_Witness ==
    /\ last.op = "analyze"
    /\ document.tagged
    /\ Len(document.snippets) = 2
    /\ document.snippets[1].form = "broken"
    /\ document.snippets[2] =
            [form |-> "statements", defects |-> {"unknown_names"}]
    /\ diagnostics = <<Finding("syntax", 0), Finding("unknown_names", 1)>>
    /\ passes = <<<<>>, Passes>>


(***************************************************************************)
(* The passes of _analyze_code over one parsed snippet (diagnostics.py).   *)
(* A statement or expression is a Node; a Call keeps its func first, then  *)
(* its positional arguments, then its `keyword` nodes (s: the name,        *)
(* kids: the value).  A FunctionDef keeps an `arguments` node first, whose *)
(* `arg` children say in t which list of ast.arguments holds them, then    *)
(* its body.  A For keeps target, iter, then its body.  A Name whose t is  *)
(* "Store" is a binding occurrence; any other Name is a read.              *)
(***************************************************************************)

\* types.Diagnostic as _make_diagnostic builds it: SEVERITY.get(level,
\* Warning).  The range is that of `node`.
_make_diagnostic(node, message, level) ==
    [node |-> node, message |-> message,
     severity |-> IF level \in {"error", "warning", "info"} THEN level
                  ELSE "warning"]

\* ast.iter_child_nodes
iter_child_nodes(node) ==
    IF node.k = "If" THEN node.kids[1] \o node.kids[2] ELSE node.kids

\* The nodes under ast.Module(body=list(body)) with their parents, the
\* module left out, in the order NodeVisitor.generic_visit reaches them
\* (depth_first) or in the order of ast.walk (breadth first).
Under(body, depth_first) ==
    LET RECURSIVE Nodes(_)
        Nodes(todo) ==
            IF todo = <<>> THEN <<>>
            ELSE LET children ==
                        [i \in 1..Len(iter_child_nodes(Head(todo).node)) |->
                            [node |-> iter_child_nodes(Head(todo).node)[i],
                             parent |-> Head(todo).node]]
                 IN  <<Head(todo)>> \o
                     Nodes(IF depth_first THEN children \o Tail(todo)
                           ELSE Tail(todo) \o children)
    IN  Nodes([i \in 1..Len(body) |->
                  [node |-> body[i], parent |-> Node("Module", "", "", body)]])

RECURSIVE _names_in_target(_)
_names_in_target(target) ==
    CASE target.k = "Name" -> {target.s}
      [] target.k \in {"Tuple", "List"} ->
            UNION {_names_in_target(elt) : elt \in Range(target.kids)}
      [] OTHER -> {}

RECURSIVE Walker(_, _, _, _)
\* The Walker of _check_unknown_names over the nodes of `todo` in turn.  Its
\* tracker is one set that every visit adds to.  A node of kind "update"
\* is the `tracker.update(_names_in_target(target))` that visit_Assign
\* still has to run once the value has been visited.
Walker(tracker, todo, found, level) ==
    IF todo = <<>> THEN [tracker |-> tracker, diagnostics |-> found]
    ELSE LET node == Head(todo)
             rest == Tail(todo)
         IN  CASE node.k = "Assign" ->
                    Walker(tracker,
                           <<node.kids[2], Node("update", "", "", <<node.kids[1]>>)>>
                               \o rest,
                           found, level)
               [] node.k = "update" ->
                    Walker(tracker \cup _names_in_target(node.kids[1]), rest,
                           found, level)
               [] node.k = "FunctionDef" ->
                    Walker(tracker \cup {node.s}
                               \cup {a.s : a \in {x \in Range(node.kids[1].kids) :
                                                    x.t = "args"}},
                           Tail(node.kids) \o rest, found, level)
               [] node.k = "ClassDef" ->
                    Walker(tracker \cup {node.s}, node.kids \o rest, found, level)
               [] node.k = "For" ->
                    Walker(tracker \cup _names_in_target(node.kids[1]),
                           Tail(node.kids) \o rest, found, level)
               [] node.k = "Name" ->
                    Walker(tracker, rest,
                           IF node.t # "Store" /\ node.s \notin tracker
                           THEN Append(found,
                                    _make_diagnostic(node,
                                        "'" \o node.s \o "' may be undefined in this scope",
                                        level))
                           ELSE found,
                           level)
               [] node.k = "Call" ->
                    Walker(IF node.kids[1].k = "Name" /\ node.kids[1].s = "using"
                           THEN tracker \cup
                                {kw.s : kw \in {x \in Range(node.kids) :
                                                  x.k = "keyword" /\ x.s # ""}}
                           ELSE tracker,
                           node.kids \o rest, found, level)
               [] OTHER ->
                    Walker(tracker, iter_child_nodes(node) \o rest, found, level)

\* _check_unknown_names: the tracker at the end and the findings.  Of
\* MockExecutor.available_names the Walker starts with, these are the names
\* the snippets mention.
_check_unknown_names(body, level) ==
    Walker({"len", "print", "range", "get_gvar", "get_svar", "using", "ctx",
            "character", "combat"},
           body, <<>>, level)

\* _check_imports: one finding per Import and ImportFrom, wherever it is.
_check_imports(body, severity_level) ==
    LET found == SelectSeq(Under(body, TRUE),
                           LAMBDA e : e.node.k \in {"Import", "ImportFrom"})
    IN  [i \in 1..Len(found) |->
            _make_diagnostic(found[i].node,
                             "Imports are not supported in draconic aliases",
                             severity_level)]

\* str.startswith("_") on the attribute names of this model's snippets.
PrivateNames == {"_h", "_g"}

\* _iter_calls: the calls in the order Finder meets them.
_iter_calls(body) ==
    LET found == SelectSeq(Under(body, TRUE), LAMBDA e : e.node.k = "Call")
    IN  [i \in 1..Len(found) |-> found[i].node]

\* A private call whose receiver is not a plain name goes unreported.
_check_private_method_calls_on_names(body) ==
    LET found == SelectSeq(_iter_calls(body),
                    LAMBDA call : /\ call.kids[1].k = "Attribute"
                                  /\ call.kids[1].s \in PrivateNames
                                  /\ call.kids[1].kids[1].k = "Name")
    IN  [i \in 1..Len(found) |->
            _make_diagnostic(found[i].kids[1],
                             "Calling private methods (starting with '_') is not allowed",
                             "error")]

\* _check_private_method_calls: severity is the literal "error".
_check_private_method_calls(body) ==
    LET found == SelectSeq(_iter_calls(body),
                    LAMBDA call : /\ call.kids[1].k = "Attribute"
                                  /\ call.kids[1].s \in PrivateNames)
    IN  [i \in 1..Len(found) |->
            _make_diagnostic(found[i].kids[1],
                             "Calling private methods (starting with '_') is not allowed",
                             "error")]

\* _build_builtin_signatures, for the callables of available_names that
\* inspect.signature can describe: the parameters that are positional
\* without a default (required), all positional ones (positional), and
\* whether there is a *args.  range has no signature.
_build_builtin_signatures ==
    <<<<"len", [required |-> 1, positional |-> 1, var_positional |-> FALSE]>>,
      <<"print", [required |-> 0, positional |-> 0, var_positional |-> TRUE]>>,
      <<"get_gvar", [required |-> 1, positional |-> 1, var_positional |-> FALSE]>>,
      <<"get_svar", [required |-> 1, positional |-> 2, var_positional |-> FALSE]>>,
      <<"using", [required |-> 0, positional |-> 0, var_positional |-> FALSE]>>>>

\* A match that never looks at the upper limit.
_call_args_match_no_max(sig, call) ==
    LET arg_count == Len(SelectSeq(Tail(call.kids), LAMBDA x : x.k # "keyword"))
    IN  arg_count >= sig.required

\* arg_count is len(call.args).
_call_args_match(sig, call) ==
    LET arg_count == Len(SelectSeq(Tail(call.kids), LAMBDA x : x.k # "keyword"))
    IN  /\ arg_count >= sig.required
        /\ sig.var_positional \/ arg_count <= sig.positional

_check_call_args(body, signatures, severity_level) ==
    LET found == SelectSeq(_iter_calls(body),
                    LAMBDA call :
                        /\ call.kids[1].k = "Name"
                        /\ HasKey(signatures, call.kids[1].s)
                        /\ ~_call_args_match(
                                Lookup(signatures, call.kids[1].s, None), call))
    IN  [i \in 1..Len(found) |->
            _make_diagnostic(found[i].kids[1],
                             "Call to '" \o found[i].kids[1].s
                                 \o "' may have invalid arguments",
                             severity_level)]


\* _validate_gvar once `ensured` is known: the finding, and on to the next
\* argument.
_validate_gvar(st, ensured) ==
    [st EXCEPT
        !.todo = Tail(@),
        !.diagnostics =
            IF ensured THEN @
            ELSE Append(@, _make_diagnostic(Head(st.todo),
                                "Unknown gvar '" \o Head(st.todo).s \o "'",
                                st.level))]

RECURSIVE _check_gvars_unseen(_, _, _)
\* A pass that forgets which ids it has checked.
_check_gvars_unseen(c, cfg, st) ==
    IF st.todo = <<>> THEN [st EXCEPT !.pc = "passes"]
    ELSE LET arg_node == Head(st.todo)
             gvar_id == IF arg_node.k = "Constant" /\ arg_node.t = "str"
                        THEN arg_node.s ELSE None
         IN  IF gvar_id = None
             THEN _check_gvars_unseen(c, cfg, [st EXCEPT !.todo = Tail(@)])
             ELSE IF get_local(c, StrKey(gvar_id)) # None
             THEN _check_gvars_unseen(c, cfg,
                        _validate_gvar([st EXCEPT !.seen = @ \cup {gvar_id}], TRUE))
             ELSE IF ensure_sync(c, cfg, gvar_id) = "await"
             THEN [st EXCEPT !.pc = "await", !.key = gvar_id,
                             !.seen = @ \cup {gvar_id},
                             !.calls = Append(@, gvar_id)]
             ELSE _check_gvars_unseen(c, cfg,
                        _validate_gvar([st EXCEPT !.seen = @ \cup {gvar_id},
                                                  !.calls = Append(@, gvar_id)],
                                       ensure_sync(c, cfg, gvar_id) = "True"))

RECURSIVE _check_gvars(_, _, _)
\* _check_gvars from where the analysis `st` stands to its next GET (pc
\* "await") or to its end (pc "passes").  st.calls lists the ids ensure was
\* called with.
_check_gvars(c, cfg, st) ==
    IF st.todo = <<>> THEN [st EXCEPT !.pc = "passes"]
    ELSE LET arg_node == Head(st.todo)
             gvar_id == IF arg_node.k = "Constant" /\ arg_node.t = "str"
                        THEN arg_node.s ELSE None
         IN  IF gvar_id = None \/ gvar_id \in st.seen
             THEN _check_gvars(c, cfg, [st EXCEPT !.todo = Tail(@)])
             ELSE IF get_local(c, StrKey(gvar_id)) # None
             THEN _check_gvars(c, cfg,
                        _validate_gvar([st EXCEPT !.seen = @ \cup {gvar_id}], TRUE))
             ELSE IF ensure_sync(c, cfg, gvar_id) = "await"
             THEN [st EXCEPT !.pc = "await", !.key = gvar_id,
                             !.seen = @ \cup {gvar_id},
                             !.calls = Append(@, gvar_id)]
             ELSE _check_gvars(c, cfg,
                        _validate_gvar([st EXCEPT !.seen = @ \cup {gvar_id},
                                                  !.calls = Append(@, gvar_id)],
                                       ensure_sync(c, cfg, gvar_id) = "True"))

\* _check_api_misuse under a ContextData without character or combat:
\* Heuristics is its loop over ast.walk(module) from the i-th node on.
\* No heuristic catches what it raises: with `fault` one of them raises
\* (RecursionError, when _resolve_type_name takes apart an attribute chain
\* some four hundred long) and the pass raises with it.
_check_api_misuse(body, severity_level, fault) ==
    LET \* _collect_assigned_names
        collected ==
            UNION {CASE e.node.k \in {"Assign", "For"} ->
                            _names_in_target(e.node.kids[1])
                     [] e.node.k = "FunctionDef" ->
                            {e.node.s} \cup
                            {a.s : a \in {x \in Range(e.node.kids[1].kids) :
                                            x.t = "args"}}
                     [] e.node.k = "ClassDef" -> {e.node.s}
                     [] OTHER -> {} :
                   e \in Range(Under(body, TRUE))}
        RECURSIVE Heuristics(_, _, _, _)
        Heuristics(walk, type_map_arg, assigned_names, i) ==
            IF i > Len(walk) THEN <<>>
            ELSE LET node == walk[i].node
                     parent == walk[i].parent
                     \* context_seen: the context call was met before
                     met == \E j \in 1..(i - 1) :
                                /\ walk[j].node.k = "Call"
                                /\ walk[j].node.kids[1] = node.kids[1]
                     _context_call_diagnostics ==
                         IF node.kids[1].k = "Name" /\ ~met
                         THEN CASE node.kids[1].s = "character" ->
                                    <<_make_diagnostic(node.kids[1],
                                        "No character context configured; character() will raise at runtime.",
                                        severity_level)>>
                                [] node.kids[1].s = "combat" ->
                                    <<_make_diagnostic(node.kids[1],
                                        "No combat context configured; combat() will return None.",
                                        severity_level)>>
                                [] OTHER -> <<>>
                         ELSE <<>>
                     property(found) ==
                         IF found = {} THEN <<>>
                         ELSE <<_make_diagnostic(node.kids[1],
                                    "'" \o node.kids[1].s \o "' on "
                                        \o (CHOOSE item \in found : TRUE).detail
                                        \o " is a property; drop the parentheses.",
                                    severity_level)>>
                     _uncalled_context_attr_diagnostics ==
                         IF /\ node.kids[1].k = "Name"
                            /\ node.kids[1].s \in {"character", "combat"}
                            /\ node.kids[1].s \notin assigned_names
                         THEN <<_make_diagnostic(node.kids[1],
                                    "Call " \o node.kids[1].s \o "() before accessing '"
                                        \o node.s \o "'.",
                                    severity_level)>>
                         ELSE <<>>
                     iterable(attrs) ==
                         IF node.s \notin DOMAIN attrs THEN <<>>
                         ELSE IF ~(\/ attrs[node.s].element_type # ""
                                   \/ attrs[node.s].type_name \in {"list", "dict"})
                         THEN <<>>
                         ELSE IF parent.k \in {"Attribute", "Call"} /\ parent.kids[1] = node
                         THEN <<_make_diagnostic(node,
                                    "'" \o Join(_expr_to_str(node)) \o "' is a "
                                        \o (IF attrs[node.s].type_name # ""
                                            THEN attrs[node.s].type_name ELSE "collection")
                                        \o " of "
                                        \o (IF attrs[node.s].element_type # ""
                                            THEN attrs[node.s].element_type ELSE "items")
                                        \o (IF parent.k = "Attribute"
                                            THEN "; index or iterate before accessing '"
                                                    \o parent.s \o "'."
                                            ELSE "; index or iterate before calling it."),
                                    severity_level)>>
                         ELSE <<>>
                     _iterable_attr_diagnostics(base_type) ==
                         IF parent.k = "Subscript" /\ parent.kids[1] = node THEN <<>>
                         ELSE IF base_type = "" THEN <<>>
                         ELSE iterable(_type_meta(base_type).attrs)
                 IN  (CASE node.k = "Call" ->
                            _context_call_diagnostics
                                \o property(_property_call_diagnostics(node, type_map_arg))
                        [] node.k = "Attribute" ->
                            _uncalled_context_attr_diagnostics
                                \o _iterable_attr_diagnostics(
                                        _resolve_expr_type(node.kids[1], type_map_arg))
                        [] OTHER -> <<>>)
                     \o Heuristics(walk, type_map_arg, assigned_names, i + 1)
    IN  IF fault THEN [raised |-> TRUE, diagnostics |-> <<>>]
        ELSE [raised |-> FALSE, diagnostics |->
                Heuristics(Under(body, FALSE), _visit_block(body, <<>>),
                           collected, 1)]

\* The snippets the passes are run on, as DraconicInterpreter.parse returns
\* them.
Bodies ==
    LET Expr(value) == Node("Expr", "", "", <<value>>)
        Target(id) == Node("Name", id, "Store", <<>>)
        CallArgs(func, args) == Node("Call", "", "", <<func>> \o args)
        keyword(arg, value) == Node("keyword", arg, "", <<value>>)
        str(s) == Constant(s, "str")
        int == Constant("1", "int")
        arg(name, list) == Node("arg", name, list, <<>>)
        FunctionDef(name, args, body) ==
            Node("FunctionDef", name, "", <<Node("arguments", "", "", args)>> \o body)
    IN  { \* [x for x in range(3)]
          <<Expr(Node("ListComp", "", "",
                      <<Name("x"),
                        Node("comprehension", "", "",
                             <<Target("x"), CallArgs(Name("range"), <<int>>)>>)>>))>>,
          \* def f(a, *args): return a + args
          <<FunctionDef("f", <<arg("a", "args"), arg("args", "vararg")>>,
                        <<Node("Return", "", "",
                               <<Node("BinOp", "", "", <<Name("a"), Name("args")>>)>>)>>)>>,
          \* x = x; x; for i in i: i; class K: pass; K; z
          <<Node("Assign", "", "", <<Target("x"), Name("x")>>),
            Expr(Name("x")),
            Node("For", "", "", <<Target("i"), Name("i"), Expr(Name("i"))>>),
            Node("ClassDef", "K", "", <<Node("Pass", "", "", <<>>)>>),
            Expr(Name("K")),
            Expr(Name("z"))>>,
          \* import os; def g(): from a import b
          <<Node("Import", "os", "", <<>>),
            FunctionDef("g", <<>>, <<Node("ImportFrom", "a", "", <<>>)>>)>>,
          \* ctx._h(); ctx.h()._g(); ctx.h(); len()
          <<Expr(Call(Attribute(Name("ctx"), "_h"))),
            Expr(Call(Attribute(Call(Attribute(Name("ctx"), "h")), "_g"))),
            Expr(Call(Attribute(Name("ctx"), "h"))),
            Expr(Call(Name("len")))>>,
          \* len(1, 1); len(1); get_svar(name='n'); print(1, 1);
          \* range(1, 1, 1, 1); ctx.len(1, 1)
          <<Expr(CallArgs(Name("len"), <<int, int>>)),
            Expr(CallArgs(Name("len"), <<int>>)),
            Expr(CallArgs(Name("get_svar"), <<keyword("name", str("n"))>>)),
            Expr(CallArgs(Name("print"), <<int, int>>)),
            Expr(CallArgs(Name("range"), <<int, int, int, int>>)),
            Expr(CallArgs(Attribute(Name("ctx"), "len"), <<int, int>>))>>,
          \* get_gvar('a'); get_gvar('a'); using(m='a', n='b'); get_gvar(1)
          <<Expr(CallArgs(Name("get_gvar"), <<str("a")>>)),
            Expr(CallArgs(Name("get_gvar"), <<str("a")>>)),
            Expr(CallArgs(Name("using"),
                          <<keyword("m", str("a")), keyword("n", str("b"))>>)),
            Expr(CallArgs(Name("get_gvar"), <<int>>))>>,
          \* get_gvar('b'); get_gvar('a'); ctx._h(); len()
          <<Expr(CallArgs(Name("get_gvar"), <<str("b")>>)),
            Expr(CallArgs(Name("get_gvar"), <<str("a")>>)),
            Expr(Call(Attribute(Name("ctx"), "_h"))),
            Expr(Call(Name("len")))>>,
          \* x = character(); x.name(); combat().combatants.name; character.name
          <<Assign("x", character_call),
            Expr(Call(Attribute(Name("x"), "name"))),
            Expr(Attribute(combat_combatants, "name")),
            Expr(Attribute(Name("character"), "name"))>> }

\* _analyze_code from _check_imports to its return, with the passes in
\* another order.
finish_private_first(st) ==
    LET done(misuse) ==
            IF misuse.raised
            THEN [st EXCEPT !.pc = "done", !.raised = TRUE, !.diagnostics = <<>>,
                            !.passes = Passes]
            ELSE [st EXCEPT
                    !.pc = "done",
                    !.passes = Passes,
                    !.diagnostics =
                        @ \o _check_imports(st.body, st.level)
                          \o _check_private_method_calls(st.body)
                          \o _check_call_args(st.body, _build_builtin_signatures,
                                              st.level)
                          \o misuse.diagnostics]
    IN  done(_check_api_misuse(st.body, st.level, st.fault))

\* _analyze_code from _check_imports to its return: nothing suspends, and
\* what a pass raises leaves _analyze_code and analyze.
finish(st) ==
    LET done(misuse) ==
            IF misuse.raised
            THEN [st EXCEPT !.pc = "done", !.raised = TRUE, !.diagnostics = <<>>,
                            !.passes = Passes]
            ELSE [st EXCEPT
                    !.pc = "done",
                    !.passes = Passes,
                    !.diagnostics =
                        @ \o _check_imports(st.body, st.level)
                          \o _check_call_args(st.body, _build_builtin_signatures,
                                              st.level)
                          \o _check_private_method_calls(st.body)
                          \o misuse.diagnostics]
    IN  done(_check_api_misuse(st.body, st.level, st.fault))

\* _analyze_code on a snippet that parses: the unknown-name pass, and
\* _check_gvars about to start.
begin(body, level, fault, c) ==
    LET RECURSIVE GvarArgs(_)
        \* the argument nodes _check_gvars hands to _validate_gvar, in
        \* order: the first positional argument of a get_gvar call, the
        \* value of every keyword of a using call
        GvarArgs(calls) ==
            IF calls = <<>> THEN <<>>
            ELSE LET node == Head(calls)
                     args == SelectSeq(Tail(node.kids), LAMBDA x : x.k # "keyword")
                     keywords == SelectSeq(Tail(node.kids), LAMBDA x : x.k = "keyword")
                 IN  (IF node.kids[1].k # "Name" THEN <<>>
                      ELSE IF node.kids[1].s = "get_gvar"
                      THEN (IF args # <<>> THEN <<args[1]>> ELSE <<>>)
                      ELSE IF node.kids[1].s = "using"
                      THEN [i \in 1..Len(keywords) |-> keywords[i].kids[1]]
                      ELSE <<>>)
                     \o GvarArgs(Tail(calls))
        first(unknown) ==
            [NoAnalysis EXCEPT
                !.pc = "gvars", !.body = body, !.level = level, !.fault = fault,
                !.cache0 = c, !.known = unknown.tracker,
                !.diagnostics = unknown.diagnostics,
                !.todo = GvarArgs(_iter_calls(body)),
                !.passes = SubSeq(Passes, 1, 2)]
    IN  first(_check_unknown_names(body, level))

\* _analyze_code between two suspensions.
resume(c, cfg, st) ==
    LET after(gvars) == IF gvars.pc = "await" THEN gvars ELSE finish(gvars)
    IN  after(_check_gvars(c, cfg, st))

\* What the GET for `key` comes back with.
Served(rem, key) ==
    {resp \in Responses :
        IF rem[key] = None
        THEN ensure_response(EmptyCache, key, resp).val = "False"
        ELSE /\ resp.kind = "response" /\ resp.status = 200
             /\ payload_value(resp) = rem[key]}

RECURSIVE RunAlone(_, _, _, _)
\* The analysis `st` run to its end with nothing else running.
RunAlone(c, cfg, st, rem) ==
    IF st.pc = "done" THEN st
    ELSE IF st.pc = "gvars" THEN RunAlone(c, cfg, resume(c, cfg, st), rem)
    ELSE LET next(r) == RunAlone(r.cache, cfg,
                                 resume(r.cache, cfg,
                                        _validate_gvar(st, r.val = "True")),
                                 rem)
         IN  next(ensure_response(c, st.key,
                                  CHOOSE resp \in Served(rem, st.key) : TRUE))

\* A session that fetches or not, before anything is analysed.
InitPasses ==
    /\ FreshResolver
    /\ config \in {[enable_gvar_fetch |-> FALSE, token |-> None],
                   [enable_gvar_fetch |-> TRUE, token |-> "tok"]}
    /\ FreshDocument
    /\ meta_cache = _type_meta_map
    /\ remote \in [{"a", "b"} -> {None, "v1"}]

\* provider._analyze_code(code, ctx_data, resolver) is called and runs to
\* its first GET or to its end.
AnalyzeCode(p, body, level, fault) ==
    /\ FreeSlot(analyses, p)
    /\ analyses' = [analyses EXCEPT
                        ![p] = resume(cache, config,
                                      begin(body, level, fault, cache))]
    /\ UNCHANGED <<gvarVars, inferVars, document, diagnostics, passes, remote,
                   source_text>>

\* All suspended analyses get the finding of the one that resumes.
GetResponseShared(p, resp) ==
    /\ analyses[p].pc = "await"
    /\ resp \in Served(remote, analyses[p].key)
    /\ cache' = ensure_response(cache, analyses[p].key, resp).cache
    /\ analyses' =
        [q \in Procs |->
            IF q = p
            THEN resume(cache', config,
                        _validate_gvar(analyses[p],
                            ensure_response(cache, analyses[p].key, resp).val = "True"))
            ELSE IF analyses[q].pc = "await"
                    /\ ensure_response(cache, analyses[p].key, resp).val = "False"
            THEN [analyses[q] EXCEPT
                    !.diagnostics = Append(@,
                        _make_diagnostic(Head(analyses[p].todo),
                            "Unknown gvar '" \o analyses[p].key \o "'",
                            analyses[p].level))]
            ELSE analyses[q]]
    /\ UNCHANGED <<config, procs, ret, ops, inferVars, document, diagnostics,
                   passes, remote, source_text>>

\* The GET of a suspended analysis comes back: ensure stores the value or
\* not, and the analysis runs to its next GET or to its end.
GetResponse(p, resp) ==
    /\ analyses[p].pc = "await"
    /\ resp \in Served(remote, analyses[p].key)
    /\ cache' = ensure_response(cache, analyses[p].key, resp).cache
    /\ analyses' =
        [analyses EXCEPT
            ![p] = resume(cache', config,
                          _validate_gvar(analyses[p],
                            ensure_response(cache, analyses[p].key, resp).val = "True"))]
    /\ UNCHANGED <<config, procs, ret, ops, inferVars, document, diagnostics,
                   passes, remote, source_text>>

NextPasses ==
    \/ \E p \in Procs, body \in Bodies, level \in {"warning", "error"},
          fault \in BOOLEAN :
        AnalyzeCode(p, body, level, fault)
    \/ \E p \in Procs, resp \in Responses : GetResponse(p, resp)

SpecPasses == InitPasses /\ [][NextPasses]_vars


\* The findings of an analysis whose message is `message`, or begins with
\* it when the message ends in the name the finding is about.
Found(st, message) ==
    SelectSeq(st.diagnostics,
              LAMBDA d : d.message \in {message, message \o d.node.s \o "'"})

\* C11: a failure inside the API-misuse pass does not leave the analysis:
\* the analysis raises nothing and returns what the other passes found.
C11_HeuristicFailureContained ==
    \A p \in Procs :
        analyses[p].pc = "done" /\ analyses[p].fault =>
            /\ ~analyses[p].raised
            /\ analyses[p].diagnostics =
                    RunAlone(analyses[p].cache0, config,
                             begin(analyses[p].body, analyses[p].level, FALSE,
                                   analyses[p].cache0),
                             remote).diagnostics

\* C12: the passes start in the fixed order; while a global lookup is
\* awaited no later pass has started and nothing but the findings of the
\* first two passes is there; the returned list is the findings of the six
\* passes, one pass after the other in that order.
C12_PassOrder ==
    \A p \in Procs :
        LET st == analyses[p]
            unknown == _check_unknown_names(st.body, st.level).diagnostics
            later == _check_imports(st.body, st.level)
                        \o _check_call_args(st.body, _build_builtin_signatures,
                                            st.level)
                        \o _check_private_method_calls(st.body)
                        \o _check_api_misuse(st.body, st.level, FALSE).diagnostics
            gvars == SubSeq(st.diagnostics, Len(unknown) + 1,
                            Len(st.diagnostics) - Len(later))
        IN  /\ st.passes = SubSeq(Passes, 1, Len(st.passes))
            /\ st.pc = "await" =>
                    /\ st.passes = <<"unknown_names", "gvars">>
                    /\ SubSeq(st.diagnostics, 1, Len(unknown)) = unknown
                    /\ Len(Found(st, "Unknown gvar '")) =
                            Len(st.diagnostics) - Len(unknown)
            /\ st.pc = "done" /\ ~st.raised =>
                    /\ st.passes = Passes
                    /\ Len(st.diagnostics) >= Len(unknown) + Len(later)
                    /\ st.diagnostics = unknown \o gvars \o later
                    /\ gvars = Found(st, "Unknown gvar '")

\* An analysis that waited for a lookup returned findings of the
\* global-lookup pass and of two later passes.
C12_Witness ==
    \E p \in Procs :
        /\ analyses[p].pc = "done" /\ ~analyses[p].raised
        /\ Len(analyses[p].calls) = 2 /\ cache # EmptyCache
        /\ Found(analyses[p], "Unknown gvar '") # <<>>
        /\ Found(analyses[p], "Call to 'len' may have invalid arguments") # <<>>
        /\ Found(analyses[p],
                 "Calling private methods (starting with '_') is not allowed") # <<>>

\* C13: within one analysis ensure is called at most once per id and only
\* for ids the cache lacked, there is at most one 'Unknown gvar' finding per
\* id, and the ids with a finding are the literal ids of the snippet that
\* were not cached and that ensure did not resolve.
C13_EachIdOnce ==
    \A p \in Procs :
        LET st == analyses[p]
            unknown == Found(st, "Unknown gvar '")
            \* the literal ids the snippet mentions
            Literal(x) == x.k = "Constant" /\ x.t = "str"
            LiteralIds(body) ==
                UNION {IF e.node.kids[1] = Name("get_gvar")
                       THEN {x.s : x \in {y \in Range(e.node.kids) :
                                            y = e.node.kids[2] /\ Literal(y)}}
                       ELSE IF e.node.kids[1] = Name("using")
                       THEN {x.kids[1].s : x \in {y \in Range(e.node.kids) :
                                            y.k = "keyword" /\ Literal(y.kids[1])}}
                       ELSE {} :
                       e \in {x \in Range(Under(body, TRUE)) :
                                x.node.k = "Call" /\ Len(x.node.kids) > 1}}
        IN  /\ \A i, j \in 1..Len(st.calls) : st.calls[i] = st.calls[j] => i = j
            /\ \A i, j \in 1..Len(unknown) :
                    unknown[i].node.s = unknown[j].node.s => i = j
            /\ Range(st.calls) \subseteq LiteralIds(st.body) \ DOMAIN st.cache0
            /\ st.pc = "done" /\ ~st.raised =>
                    {d.node.s : d \in Range(unknown)} =
                        LiteralIds(st.body) \ DOMAIN cache

\* With fetching off and nothing seeded, a snippet that mentions 'a' three
\* times, 'b' once and a number once got one finding for 'a' and one for 'b'.
C13_Witness ==
    \E p \in Procs :
        /\ analyses[p].pc = "done" /\ ~analyses[p].raised
        /\ ~config.enable_gvar_fetch /\ cache = EmptyCache
        /\ Len(analyses[p].body) = 4
        /\ analyses[p].body[3].kids[1].kids[1] = Name("using")
        /\ analyses[p].calls = <<"a", "b">>
        /\ Len(Found(analyses[p], "Unknown gvar '")) = 2

\* C14: every import statement, at any depth, gives one 'Imports are not
\* supported' finding, and that finding has severity error whatever the
\* configured level.
C14_ImportsAlwaysError ==
    \A p \in Procs :
        analyses[p].pc = "done" /\ ~analyses[p].raised =>
            LET found == Found(analyses[p],
                               "Imports are not supported in draconic aliases")
            IN  /\ Len(found) =
                        Len(SelectSeq(Under(analyses[p].body, TRUE),
                                LAMBDA e : e.node.k \in {"Import", "ImportFrom"}))
                /\ \A i \in 1..Len(found) : found[i].severity = "error"

\* C15: there are as many 'Calling private methods' findings as calls on an
\* attribute whose name starts with an underscore, each on such an
\* attribute and each of severity error.
C15_PrivateCallsAlwaysError ==
    \A p \in Procs :
        analyses[p].pc = "done" /\ ~analyses[p].raised =>
            LET found == Found(analyses[p],
                    "Calling private methods (starting with '_') is not allowed")
            IN  /\ Len(found) =
                        Len(SelectSeq(Under(analyses[p].body, TRUE),
                                LAMBDA e : /\ e.node.k = "Call"
                                           /\ e.node.kids[1].k = "Attribute"
                                           /\ e.node.kids[1].s \in PrivateNames))
                /\ \A i \in 1..Len(found) :
                        /\ found[i].severity = "error"
                        /\ found[i].node.k = "Attribute"
                        /\ found[i].node.s \in PrivateNames

\* Under level warning, two private calls, one of them on the result of a
\* call, got two findings, and the plain call on ctx none.
C15_Witness ==
    \E p \in Procs :
        /\ analyses[p].pc = "done" /\ ~analyses[p].raised
        /\ analyses[p].level = "warning"
        /\ \E e \in Range(Under(analyses[p].body, TRUE)) :
                /\ e.node.k = "Call" /\ e.node.kids[1].s = "_g"
                /\ e.node.kids[1].kids[1].k = "Call"
        /\ Len(Found(analyses[p],
                "Calling private methods (starting with '_') is not allowed")) = 2

\* C16: for each name with a known signature there are as many 'invalid
\* arguments' findings as calls of that bare name with fewer positional
\* arguments than required or, without *args, more than declared; there is
\* no such finding for any other name.
C16_CallArity ==
    \A p \in Procs :
        analyses[p].pc = "done" /\ ~analyses[p].raised =>
            \A fn \in {"len", "print", "range", "get_gvar", "get_svar", "using",
                        "f", "z"} :
                Len(Found(analyses[p],
                          "Call to '" \o fn \o "' may have invalid arguments")) =
                Len(SelectSeq(Under(analyses[p].body, TRUE),
                        LAMBDA e :
                            /\ e.node.k = "Call"
                            /\ e.node.kids[1] = Name(fn)
                            /\ HasKey(_build_builtin_signatures, fn)
                            /\ LET sig == Lookup(_build_builtin_signatures, fn, None)
                                   n == Len(SelectSeq(Tail(e.node.kids),
                                                LAMBDA x : x.k # "keyword"))
                               IN  \/ n < sig.required
                                   \/ ~sig.var_positional /\ n > sig.positional))

\* len(1, 1) and get_svar(name='n') were flagged; len(1), print(1, 1),
\* range(1, 1, 1, 1) and ctx.len(1, 1) were not.
C16_Witness ==
    \E p \in Procs :
        /\ analyses[p].pc = "done" /\ ~analyses[p].raised
        /\ Len(analyses[p].body) = 6
        /\ Len(analyses[p].diagnostics) = 2
        /\ Len(Found(analyses[p], "Call to 'len' may have invalid arguments")) = 1
        /\ Len(Found(analyses[p], "Call to 'get_svar' may have invalid arguments")) = 1

\* C17: at the end of the snippet the known names hold every assignment
\* target, loop target, function and class name and every parameter of a
\* function definition, and no read of such a parameter inside its
\* function is flagged.
C17_EveryBindingKnown ==
    \A p \in Procs :
        analyses[p].pc = "done" /\ ~analyses[p].raised =>
            \A e \in Range(Under(analyses[p].body, TRUE)) :
                /\ e.node.k \in {"Assign", "For"} =>
                        _names_in_target(e.node.kids[1]) \subseteq analyses[p].known
                /\ e.node.k \in {"FunctionDef", "ClassDef"} =>
                        e.node.s \in analyses[p].known
                /\ e.node.k = "arg" =>
                        /\ e.node.s \in analyses[p].known
                        /\ Found(analyses[p],
                                 "'" \o e.node.s \o "' may be undefined in this scope")
                                = <<>>

\* C18: the element of a comprehension that reads its own target is not
\* flagged.
C18_ComprehensionTarget ==
    \A p \in Procs :
        analyses[p].pc = "done" /\ ~analyses[p].raised =>
            \A e \in Range(Under(analyses[p].body, TRUE)) :
                e.node.k = "comprehension" =>
                    \A id \in _names_in_target(e.node.kids[1]) :
                        Found(analyses[p],
                              "'" \o id \o "' may be undefined in this scope") = <<>>

\* C20: an analysis that ran while another one ran returns what it returns
\* when run alone from the cache it started with, the service answering
\* the same for each key.
C20_NoInterference ==
    \A p \in Procs :
        analyses[p].pc = "done" =>
            LET alone == RunAlone(analyses[p].cache0, config,
                                  begin(analyses[p].body, analyses[p].level,
                                        analyses[p].fault, analyses[p].cache0),
                                  remote)
            IN  /\ analyses[p].diagnostics = alone.diagnostics
                /\ analyses[p].raised = alone.raised

\* Both analyses started on an empty cache, both asked the service, and
\* what the first one fetched is now cached: the second one started before
\* the first one was through.
C20_Witness ==
    /\ \A p \in Procs : /\ analyses[p].pc = "done"
                        /\ analyses[p].cache0 = EmptyCache
                        /\ analyses[p].calls # <<>>
    /\ \E k \in DOMAIN cache : k \in Range(analyses["p1"].calls)
    /\ \E k \in DOMAIN remote : remote[k] = None


(***************************************************************************)
(* analyze on the text of a document (diagnostics.py, parser.py).  The     *)
(* text is a sequence of tokens: "<drac2>" and "</drac2>", a newline, "t"  *)
(* for a character outside the blocks, and inside a snippet the name "z"   *)
(* that nothing defines, ";" and "r", the statement `return`.  The         *)
(* wrapper adds the tokens "def" and "call", its first and last line, and  *)
(* "    ", the indentation of a line.                                      *)
(***************************************************************************)

\* _wrap_draconic(code)[0]: the lines of code.splitlines(), each behind
\* four spaces, between `def __alias_main__():` and `__alias_main__()`.
\* splitlines gives no line after a newline that ends the code.
_wrap_draconic(code) ==
    LET RECURSIVE indented(_)
        indented(i) ==
            IF i > Len(code) THEN <<>>
            ELSE IF code[i] # "\n" THEN <<code[i]>> \o indented(i + 1)
            ELSE IF i = Len(code) THEN <<>>
            ELSE <<"\n", "    ">> \o indented(i + 1)
    IN  <<"def", "\n">>
        \o (IF code = <<>> THEN <<>> ELSE <<"    ">> \o indented(1))
        \o <<"\n", "call">>

\* analyze: the blocks find_draconic_blocks returns, with what
\* _analyze_code finds in each, and the findings returned.  In a snippet
\* of these tokens the unknown-name pass reports every z where it stands
\* and no other pass reports anything.
analyze_text(text) ==
    LET len(token) == CASE token = "<drac2>" -> 7
                        [] token = "</drac2>" -> 8
                        [] token = "r" -> 6
                        [] token = "    " -> 4
                        [] OTHER -> 1
        \* str.count("\n") of what precedes the i-th token
        line_at(tokens, i) == Cardinality({j \in 1..(i - 1) : tokens[j] = "\n"})
        \* the characters between the last newline and the i-th token
        RECURSIVE column_at(_, _)
        column_at(tokens, i) ==
            IF i = 1 \/ tokens[i - 1] = "\n" THEN 0
            ELSE column_at(tokens, i - 1) + len(tokens[i - 1])
        \* DRACONIC_RE.finditer from the i-th token on: the next opening
        \* tag that a closing tag follows, up to the first such closing tag
        RECURSIVE finditer(_)
        finditer(i) ==
            IF i > Len(text) THEN <<>>
            ELSE IF /\ text[i] = "<drac2>"
                    /\ \E j \in (i + 1)..Len(text) : text[j] = "</drac2>"
            THEN LET end == CHOOSE j \in (i + 1)..Len(text) :
                                /\ text[j] = "</drac2>"
                                /\ \A k \in (i + 1)..(j - 1) : text[k] # "</drac2>"
                 IN  <<[start |-> i, end |-> end]>> \o finditer(end + 1)
            ELSE finditer(i + 1)
        \* the newlines `while raw.startswith("\n")` takes off
        RECURSIVE leading(_)
        leading(raw) ==
            IF raw # <<>> /\ Head(raw) = "\n" THEN 1 + leading(Tail(raw)) ELSE 0
        \* what the passes find in a body parsed from these tokens
        names_in(code) ==
            LET at == SelectSeq([i \in 1..Len(code) |-> i], LAMBDA i : code[i] = "z")
            IN  [n \in 1..Len(at) |->
                    [Finding("unknown_names", line_at(code, at[n])) EXCEPT
                        !.character = column_at(code, at[n])]]
        \* a snippet with a return at its top level does not parse as
        \* written and parses wrapped: line_shift = -added
        _analyze_code_names(code) ==
            IF \E i \in 1..Len(code) : code[i] = "r"
            THEN _shift_diagnostics(names_in(_wrap_draconic(code)),
                                    0 - _wrap_draconic_added, 0)
            ELSE names_in(code)
        DraconicBlock(match, raw, blank) ==
            [code |-> SubSeq(raw, blank + 1, Len(raw)),
             line_offset |-> line_at(text, match.start) + blank,
             char_offset |-> IF blank > 0 THEN 0
                             ELSE column_at(text, match.start) + len("<drac2>"),
             found |-> _analyze_code_names(SubSeq(raw, blank + 1, Len(raw)))]
        find_blocks(matches) ==
            [n \in 1..Len(matches) |->
                DraconicBlock(matches[n],
                    SubSeq(text, matches[n].start + 1, matches[n].end - 1),
                    leading(SubSeq(text, matches[n].start + 1, matches[n].end - 1)))]
        RECURSIVE extend(_, _)
        extend(blocks, n) ==
            IF n > Len(blocks) THEN <<>>
            ELSE _shift_diagnostics(blocks[n].found, blocks[n].line_offset,
                                    blocks[n].char_offset)
                 \o extend(blocks, n + 1)
        result(blocks) ==
            [blocks |-> blocks,
             diagnostics |-> IF blocks = <<>> THEN _analyze_code_names(text)
                             ELSE extend(blocks, 1)]
    IN  result(find_blocks(finditer(1)))

\* provider.analyze(text, ctx_data, gvar_resolver) on a document
AnalyzeText(text) ==
    /\ source_text' = text
    /\ diagnostics' = analyze_text(text).diagnostics
    /\ last' = [NoStep EXCEPT !.op = "analyze_text"]
    /\ UNCHANGED <<gvarVars, meta_cache, type_map, assigned, document, passes,
                   analyses, remote>>

\* The documents: a snippet alone, or text, a block, text and maybe a
\* second block.
NextText ==
    LET snippets == {<<>>, <<"z">>, <<"z", ";", "z">>, <<"z", "\n", "z">>,
                     <<"\n", "z", "\n">>, <<"z", ";", "z", "\n", "z", "\n">>,
                     <<"\n", "\n", "z", ";", "z", "\n", "z">>}
        block(code) == <<"<drac2>">> \o code \o <<"</drac2>">>
    IN  \E text \in snippets \cup
                  {before \o block(first) \o between \o second :
                      before \in {<<>>, <<"t">>, <<"t", "\n">>,
                                  <<"t", "\n", "t", "t">>},
                      first \in snippets,
                      between \in {<<>>, <<"t">>, <<"\n">>},
                      second \in {<<>>} \cup {block(code) : code \in snippets}} :
            AnalyzeText(text)

SpecText == InitDefault /\ [][NextText]_vars

\* The documents with a snippet that parses only wrapped: such a snippet
\* alone, or text, a block of it, text and maybe a second block.
NextWrapped ==
    LET snippets == {<<"r">>, <<"r", ";", "z">>, <<"z", "\n", "r", ";", "z">>,
                     <<"\n", "z", "\n", "r", "\n">>,
                     <<"z", ";", "r", "\n", "\n", "z", ";", "z">>}
        block(code) == <<"<drac2>">> \o code \o <<"</drac2>">>
    IN  \E text \in snippets \cup
                  {before \o block(first) \o between \o second :
                      before \in {<<>>, <<"t">>, <<"t", "\n">>,
                                  <<"t", "\n", "t", "t">>},
                      first \in snippets,
                      between \in {<<>>, <<"t">>, <<"\n">>},
                      second \in {<<>>, block(<<"z">>),
                                  block(<<"r", ";", "z">>)}} :
            AnalyzeText(text)

SpecWrapped == InitDefault /\ [][NextWrapped]_vars

NamesInSnippets ==
    SelectSeq([i \in 1..Len(source_text) |-> i],
        LAMBDA i :
            /\ source_text[i] = "z"
            /\ (\E j \in 1..Len(source_text) : source_text[j] = "<drac2>") =>
                \E j, k \in 1..Len(source_text) :
                    /\ j < i /\ i < k
                    /\ source_text[j] = "<drac2>"
                    /\ source_text[k] = "</drac2>"
                    /\ \A m \in (j + 1)..(k - 1) :
                        source_text[m] \notin {"<drac2>", "</drac2>"})

PyVal(t, v) == [t |-> t, v |-> v]
PyNone == PyVal("NoneType", "None")
IsNone(x) == x.t = "NoneType"

\* hash(x) succeeds
Hashable(x) == x.t \notin {"list", "set", "dict"} /\ ~(x.t = "tuple" /\ x.v = "unhashable")

\* str(x)
PyStr(x) == IF x.t \in {"str", "int"} THEN x.v ELSE "<" \o x.t \o ">"

\* except Exception
Exception == {"TypeError", "ValueError", "KeyError", "AttributeError"}

NoCvars == [present |-> FALSE, items |-> [n \in {} |-> PyNone]]
Cvars(items) == [present |-> TRUE, items |-> items]

\* ContextData: character and combat
ContextData(cvars, owner) ==
    [character |-> [cvars |-> cvars, consumables |-> FALSE, owner |-> owner,
                    levels |-> [n \in {"Fighter"} |-> PyVal("int", "3")]],
     combat |-> [metadata |-> FALSE, round_num |-> "None"]]

E(val, exc, ctx, calls) == [val |-> val, exc |-> exc, ctx |-> ctx, calls |-> calls]

\* _is_safe_call(base, method): isinstance is equality of classes, no
\* registered class is a subclass of another.
_is_safe_call(base, method) ==
    \E cls \in DOMAIN SAFE_METHODS : base.t = cls /\ method \in SAFE_METHODS[cls]

\* The methods of the host classes of the model: parameter names, and how
\* many of them (the last ones) have a default.
HostMethods ==
    [q \in {"CharacterAPI.get_cvar", "CharacterAPI.set_cvar",
            "CharacterAPI.delete_cvar", "CharacterAPI.get_cc",
            "AliasLevels.get", "CombatAPI.get_metadata",
            "CombatAPI.set_round"} |->
        CASE q = "CharacterAPI.get_cvar" -> [params |-> <<"name", "default">>, defaults |-> 1]
          [] q = "CharacterAPI.set_cvar" -> [params |-> <<"name", "val">>, defaults |-> 0]
          [] q = "CharacterAPI.delete_cvar" -> [params |-> <<"name">>, defaults |-> 0]
          [] q = "CharacterAPI.get_cc" -> [params |-> <<"name">>, defaults |-> 0]
          [] q = "AliasLevels.get" -> [params |-> <<"cls_name", "default">>, defaults |-> 1]
          [] q = "CombatAPI.get_metadata" -> [params |-> <<"k", "default">>, defaults |-> 1]
          [] OTHER -> [params |-> <<"round_num">>, defaults |-> 0]]

\* getattr(base, attr, None): the value, or the exception of a property.
getattr(base, attr, ctx) ==
    LET q == base.t \o "." \o attr
    IN  IF q \in DOMAIN HostMethods THEN [val |-> PyVal("method", q), exc |-> ""]
        ELSE IF q = "CharacterAPI.owner" THEN
            \* int(raw) if raw is not None else None
            IF ctx.character.owner = "None" THEN [val |-> PyNone, exc |-> ""]
            ELSE IF ctx.character.owner \in {"7"}
                 THEN [val |-> PyVal("int", ctx.character.owner), exc |-> ""]
                 ELSE [val |-> PyNone, exc |-> "ValueError"]
        ELSE IF q = "CharacterAPI.levels" THEN [val |-> PyVal("AliasLevels", ""), exc |-> ""]
        ELSE IF q = "CharacterAPI.cvars" THEN [val |-> PyVal("dict", ""), exc |-> ""]
        ELSE [val |-> PyNone, exc |-> ""]

\* callee(*args, **kwargs): the call binds its arguments (TypeError when it
\* cannot) and runs the method; ran tells whether the body was entered.
Invoke(q, args, kwnames, kwvals, ctx) ==
    LET m == HostMethods[q]
        n == Len(m.params)
        given(i) == i <= Len(args) \/ \E j \in 1..Len(kwnames) : kwnames[j] = m.params[i]
        binds ==
            /\ Len(args) <= n
            /\ \A j \in 1..Len(kwnames) :
                /\ \E i \in (Len(args) + 1)..n : m.params[i] = kwnames[j]
                /\ \A j2 \in 1..Len(kwnames) : kwnames[j2] = kwnames[j] => j2 = j
            /\ \A i \in 1..(n - m.defaults) : given(i)
        arg(i, default) ==
            IF i <= Len(args) THEN args[i]
            ELSE IF \E j \in 1..Len(kwnames) : kwnames[j] = m.params[i]
                 THEN kwvals[CHOOSE j \in 1..Len(kwnames) : kwnames[j] = m.params[i]]
                 ELSE default
        R(val, exc, c) == [val |-> val, exc |-> exc, ctx |-> c, ran |-> TRUE]
        cvars == ctx.character.cvars
        \* self.data.setdefault("cvars", {})
        made == [ctx EXCEPT !.character.cvars.present = TRUE]
        key == PyStr(arg(1, PyNone))
    IN  IF ~binds THEN [val |-> PyNone, exc |-> "TypeError", ctx |-> ctx, ran |-> FALSE]
        ELSE CASE q = "CharacterAPI.get_cvar" ->
                    R(IF key \in DOMAIN cvars.items THEN cvars.items[key]
                      ELSE arg(2, PyNone), "", made)
               [] q = "CharacterAPI.set_cvar" ->
                    R(arg(2, PyNone), "",
                      [made EXCEPT !.character.cvars.items =
                          [k \in DOMAIN cvars.items \cup {key} |->
                              IF k = key THEN arg(2, PyNone) ELSE cvars.items[k]]])
               [] q = "CharacterAPI.delete_cvar" ->
                    R(IF key \in DOMAIN cvars.items THEN cvars.items[key] ELSE PyNone, "",
                      [made EXCEPT !.character.cvars.items =
                          [k \in DOMAIN cvars.items \ {key} |-> cvars.items[k]]])
               [] q = "CharacterAPI.get_cc" ->
                    \* _consumable_map() makes the key, then [name] fails:
                    \* the character has no counters
                    R(PyNone, "KeyError", [ctx EXCEPT !.character.consumables = TRUE])
               [] q = "AliasLevels.get" ->
                    R(IF key \in DOMAIN ctx.character.levels
                      THEN ctx.character.levels[key]
                      ELSE arg(2, PyVal("int", "0")), "", ctx)
               [] q = "CombatAPI.get_metadata" ->
                    \* the metadata property makes the key; it holds nothing
                    R(arg(2, PyNone), "", [ctx EXCEPT !.combat.metadata = TRUE])
               [] OTHER ->
                    \* set_round: int(round_num)
                    IF arg(1, PyNone).t = "int"
                    THEN R(PyNone, "", [ctx EXCEPT !.combat.round_num = arg(1, PyNone).v])
                    ELSE R(PyNone, "TypeError", ctx)

\* _literal_value(node): the value (None when the node is no literal) or
\* the exception raised while building it.
RECURSIVE _literal_value(_)
RECURSIVE LiteralItems(_)
LiteralItems(elts) ==
    IF elts = <<>> THEN [none |-> FALSE, exc |-> "", vals |-> <<>>]
    ELSE LET h == _literal_value(Head(elts))
         IN  IF h.exc # "" THEN [none |-> FALSE, exc |-> h.exc, vals |-> <<>>]
             ELSE IF IsNone(h.val) THEN [none |-> TRUE, exc |-> "", vals |-> <<>>]
             ELSE LET r == LiteralItems(Tail(elts))
                  IN  [r EXCEPT !.vals = <<h.val>> \o r.vals]

RECURSIVE LiteralPairs(_, _)
LiteralPairs(keys, values) ==
    IF keys = <<>> THEN [none |-> FALSE, exc |-> "", vals |-> <<>>]
    ELSE LET k == _literal_value(Head(keys))
             v == _literal_value(Head(values))
         IN  IF k.exc # "" THEN [none |-> FALSE, exc |-> k.exc, vals |-> <<>>]
             ELSE IF v.exc # "" THEN [none |-> FALSE, exc |-> v.exc, vals |-> <<>>]
             ELSE IF IsNone(k.val) \/ IsNone(v.val)
                  THEN [none |-> TRUE, exc |-> "", vals |-> <<>>]
             ELSE LET r == LiteralPairs(Tail(keys), Tail(values))
                  IN  [r EXCEPT !.vals = <<k.val>> \o r.vals]

_literal_value(node) ==
    LET L(val, exc) == [val |-> val, exc |-> exc]
        AllHashable(vals) == \A i \in 1..Len(vals) : Hashable(vals[i])
    IN  CASE node.k = "Constant" ->
                L(PyVal(node.t, node.s), "")
          [] node.k \in {"List", "Tuple", "Set"} ->
                LET r == LiteralItems(node.kids)
                IN  IF r.exc # "" THEN L(PyNone, r.exc)
                    ELSE IF r.none THEN L(PyNone, "")
                    ELSE IF node.k = "List" THEN L(PyVal("list", ""), "")
                    ELSE IF node.k = "Tuple"
                         THEN L(PyVal("tuple", IF AllHashable(r.vals) THEN ""
                                               ELSE "unhashable"), "")
                    \* set(items)
                    ELSE IF AllHashable(r.vals) THEN L(PyVal("set", ""), "")
                    ELSE L(PyNone, "TypeError")
          [] node.k = "Dict" ->
                LET r == LiteralPairs(DictKeys(node), DictValues(node))
                IN  IF r.exc # "" THEN L(PyNone, r.exc)
                    ELSE IF r.none THEN L(PyNone, "")
                    \* dict(zip(keys, values))
                    ELSE IF AllHashable(r.vals) THEN L(PyVal("dict", ""), "")
                    ELSE L(PyNone, "TypeError")
          [] OTHER -> L(PyNone, "")

\* _eval_node(node, ctx_data, bindings), with the methods run so far, and
\* the loop over the arguments of a call.
RECURSIVE _eval_node(_, _, _, _)
RECURSIVE EvalArgs(_, _, _, _)

\* callee(*args, **kwargs) inside try: None when it raises.
CallResult(r, calls, q) ==
    E(IF r.exc # "" THEN PyNone ELSE r.val, "", r.ctx,
      IF r.ran THEN Append(calls, q) ELSE calls)

\* callee = getattr(base, method_name, None); not callable: None.
CallCallee(callee, a, k) ==
    IF callee.exc # "" THEN E(PyNone, callee.exc, k.ctx, k.calls)
    ELSE IF callee.val.t # "method" THEN E(PyNone, "", k.ctx, k.calls)
    ELSE CallResult(Invoke(callee.val.v, a.vals, k.names, k.vals, k.ctx),
                    k.calls, callee.val.v)

\* after the loop over node.keywords (k)
CallKeywords(base, method_name, a, k) ==
    IF k.exc # "" \/ k.none THEN E(PyNone, k.exc, k.ctx, k.calls)
    ELSE CallCallee(getattr(base.val, method_name, k.ctx), a, k)

\* after the loop over node.args (a)
CallPositional(base, method_name, keywords, a, bindings) ==
    IF a.exc # "" \/ a.none THEN E(PyNone, a.exc, a.ctx, a.calls)
    ELSE CallKeywords(base, method_name, a,
                      EvalArgs(keywords, a.ctx, a.calls, bindings))

\* A call whose func is an attribute of `base`.
CallMethod(base, method_name, positional, keywords, bindings) ==
    IF base.exc # "" \/ IsNone(base.val) THEN base
    ELSE IF ~_is_safe_call(base.val, method_name)
    THEN E(PyNone, "", base.ctx, base.calls)
    ELSE CallPositional(base, method_name, keywords,
                        EvalArgs(positional, base.ctx, base.calls, bindings),
                        bindings)

\* The end of the loop over arguments: the first None (none), an
\* exception, or all values (and the names of keywords).
ArgsEnd(none, exc, ctx, calls) ==
    [none |-> none, exc |-> exc, vals |-> <<>>, names |-> <<>>,
     ctx |-> ctx, calls |-> calls]

ArgsPush(r, val, names) ==
    IF r.none \/ r.exc # "" THEN r
    ELSE [r EXCEPT !.vals = <<val>> \o r.vals, !.names = names \o r.names]

\* val, once it is a literal or an evaluated value
ArgValue(nodes, ev, bindings) ==
    IF ev.exc # "" THEN ArgsEnd(FALSE, ev.exc, ev.ctx, ev.calls)
    ELSE IF IsNone(ev.val) THEN ArgsEnd(TRUE, "", ev.ctx, ev.calls)
    ELSE ArgsPush(EvalArgs(Tail(nodes), ev.ctx, ev.calls, bindings), ev.val,
                  IF Head(nodes).k = "keyword" THEN <<Head(nodes).s>> ELSE <<>>)

\* val = _literal_value(arg); if val is None: val = _eval_node(arg, ...)
ArgLiteral(nodes, node, lit, ctx, calls, bindings) ==
    IF lit.exc # "" THEN ArgsEnd(FALSE, lit.exc, ctx, calls)
    ELSE ArgValue(nodes,
                  IF IsNone(lit.val) THEN _eval_node(node, ctx, calls, bindings)
                  ELSE E(lit.val, "", ctx, calls),
                  bindings)

EvalArgs(nodes, ctx, calls, bindings) ==
    IF nodes = <<>> THEN ArgsEnd(FALSE, "", ctx, calls)
    ELSE IF Head(nodes).k = "keyword"
    THEN \* kw.arg is None
         IF Head(nodes).s = "" THEN ArgsEnd(TRUE, "", ctx, calls)
         ELSE ArgLiteral(nodes, Head(nodes).kids[1],
                         _literal_value(Head(nodes).kids[1]), ctx, calls, bindings)
    ELSE ArgLiteral(nodes, Head(nodes), _literal_value(Head(nodes)),
                    ctx, calls, bindings)

\* getattr(base, node.attr, None) of an evaluated base
GetAttribute(base, attr, g) ==
    IF base.exc # "" \/ IsNone(base.val) THEN base
    ELSE E(g.val, g.exc, base.ctx, base.calls)

\* range(*args) of literal arguments, None when it raises
RangeCall(args, ctx, calls) ==
    IF args.exc # "" THEN E(PyNone, args.exc, ctx, calls)
    ELSE IF args.none THEN E(PyNone, "", ctx, calls)
    ELSE IF /\ Len(args.vals) \in 1..3
            /\ \A i \in 1..Len(args.vals) : args.vals[i].t = "int"
    THEN E(PyVal("range", ""), "", ctx, calls)
    ELSE E(PyNone, "", ctx, calls)

_eval_node(node, ctx, calls, bindings) ==
    CASE node.k = "Attribute" ->
            LET base == _eval_node(node.kids[1], ctx, calls, bindings)
            IN  GetAttribute(base, node.s,
                             IF base.exc # "" THEN [val |-> PyNone, exc |-> ""]
                             ELSE getattr(base.val, node.s, base.ctx))
      [] node.k = "Call" /\ node.kids[1].k = "Name" ->
            IF node.kids[1].s = "character"
            THEN E(PyVal("CharacterAPI", ""), "", ctx, calls)
            ELSE IF node.kids[1].s = "combat"
            THEN E(PyVal("CombatAPI", ""), "", ctx, calls)
            ELSE IF node.kids[1].s = "range"
            THEN RangeCall(LiteralItems(Tail(node.kids)), ctx, calls)
            ELSE E(PyNone, "", ctx, calls)
      [] node.k = "Call" /\ node.kids[1].k = "Attribute" ->
            CallMethod(_eval_node(node.kids[1].kids[1], ctx, calls, bindings),
                       node.kids[1].s,
                       SelectSeq(Tail(node.kids), LAMBDA x : x.k # "keyword"),
                       SelectSeq(Tail(node.kids), LAMBDA x : x.k = "keyword"),
                       bindings)
      [] node.k = "Name" ->
            IF node.s \in DOMAIN bindings THEN E(bindings[node.s], "", ctx, calls)
            ELSE IF node.s = "ctx" THEN E(PyVal("AliasContextAPI", ""), "", ctx, calls)
            ELSE E(PyNone, "", ctx, calls)
      [] OTHER -> E(PyNone, "", ctx, calls)

\* except Exception: return None
Caught(r) == IF r.exc \in Exception THEN E(PyNone, "", r.ctx, r.calls) ELSE r

\* _evaluated_value(node, ctx_data, bindings)
_evaluated_value(node, ctx, calls, bindings) ==
    Caught(_eval_node(node, ctx, calls, bindings))

\* _infer_constant_bindings._value_for(node), value = _literal_value(node)
ValueOr(value, node, ctx, calls, bindings) ==
    IF value.exc # "" THEN E(PyNone, value.exc, ctx, calls)
    ELSE IF IsNone(value.val) THEN _evaluated_value(node, ctx, calls, bindings)
    ELSE E(value.val, "", ctx, calls)

_value_for(node, ctx, calls, bindings) ==
    ValueOr(_literal_value(node), node, ctx, calls, bindings)

\* Visitor.visit_Assign once the value is there: bindings[name] = value
\* unless it is None; an exception ends the walk.
Bind(st, name, value) ==
    [bindings |-> IF value.exc # "" \/ IsNone(value.val) THEN st.bindings
                  ELSE [n \in DOMAIN st.bindings \cup {name} |->
                           IF n = name THEN value.val ELSE st.bindings[n]],
     exc |-> value.exc, ctx |-> value.ctx, calls |-> value.calls]

\* _infer_constant_bindings(code, upto_line, ctx_data) on a document of
\* assignments, one on each line: the bindings, or the exception that
\* ended the walk.
RECURSIVE VisitAssigns(_, _, _, _)
VisitAssigns(code, i, limit, st) ==
    IF i > Len(code) \/ st.exc # "" THEN st
    ELSE IF i > limit THEN VisitAssigns(code, i + 1, limit, st)
    ELSE VisitAssigns(code, i + 1, limit,
            Bind(st, code[i].kids[1].s,
                 _value_for(code[i].kids[2], st.ctx, st.calls, st.bindings)))

_infer_constant_bindings(code, upto_line, ctx) ==
    VisitAssigns(code, 1, upto_line + 1,
                 [bindings |-> [n \in {} |-> PyNone], exc |-> "", ctx |-> ctx,
                  calls |-> <<>>])

\* What hover_for_position shows for `word`, given the environment and
\* the bindings.
HoverShown(word, tm, b) ==
    [shown |-> IF b.exc # "" THEN "raised"
               ELSE IF word \in DOMAIN b.bindings THEN "local"
               ELSE IF word \in DOMAIN tm THEN "type"
               ELSE IF word \in DOMAIN cache THEN "gvar"
               ELSE "none",
     value |-> IF b.exc = "" /\ word \in DOMAIN b.bindings
               THEN b.bindings[word] ELSE PyNone,
     bindings |-> b.bindings, exc |-> b.exc, ctx |-> b.ctx, calls |-> b.calls]

\* hover_for_position(code, line, 0, {}, ctx_data, resolver) with the cursor
\* on the target of the assignment of that line: what the hover shows
\* ("local" with the value, "type", "gvar" or nothing), or the exception
\* that reaches the caller.
hover_for_position_word(code, line, ctx) ==
    HoverShown(code[line + 1].kids[1].s,
               _visit_block(code, [key \in {} |-> ""]),
               _infer_constant_bindings(code, line, ctx))

\* The values assigned in the documents of the hover model; a document is
\* one assignment to x, or one to x and then one to y.
HoverValues ==
    LET call(func, args) == Node("Call", "", "", <<func>> \o args)
        keyword(arg, value) == Node("keyword", arg, "", <<value>>)
        str(s) == Constant(s, "str")
        method(base, name, args) == call(Attribute(base, name), args)
        unhashable == Node("Set", "", "", <<Node("List", "", "", <<Constant("1", "int")>>)>>)
        set_cvar == method(character_call, "set_cvar", <<str("a"), str("b")>>)
    IN  {method(character_call, "get_cvar", <<str("a")>>),
         method(character_call, "get_cvar", <<str("m")>>),
         method(character_call, "get_cvar", <<str("m"), str("fb")>>),
         method(character_call, "get_cvar", <<str("m"), keyword("default", str("fb"))>>),
         method(character_call, "get_cvar", <<str("m"), keyword("", Name("d"))>>),
         method(character_call, "get_cvar", <<>>),
         method(character_call, "get_cvar", <<str("m"), set_cvar>>),
         method(character_call, "get_cvar", <<Attribute(character_call, "owner")>>),
         method(character_call, "get_cvar", <<str("m"), unhashable>>),
         set_cvar,
         method(character_call, "delete_cvar", <<str("a")>>),
         method(character_call, "get_cc", <<str("k")>>),
         method(Attribute(character_call, "levels"), "get", <<str("Fighter")>>),
         method(Name("x"), "set_cvar", <<str("a"), str("b")>>),
         method(Name("x"), "get_cvar", <<str("m")>>),
         method(combat_call, "set_round", <<Constant("2", "int")>>),
         method(combat_call, "get_metadata", <<str("k")>>),
         Attribute(character_call, "owner"),
         Attribute(character_call, "get_cvar"),
         character_call,
         call(Name("range"), <<Constant("3", "int")>>),
         str("s"),
         Name("ctx"),
         unhashable,
         Node("Dict", "", "", <<Node("List", "", "", <<>>), Constant("2", "int")>>)}

HoverDocs ==
    {<<Assign("x", v)>> : v \in HoverValues}
        \cup {<<Assign("x", v), Assign("y", w)>> :
                v \in {character_call, Constant("s", "str"),
                       Call(Attribute(character_call, "get_cvar"))},
                w \in HoverValues}

ContextDatas ==
    {ContextData(NoCvars, "None"),
     ContextData(NoCvars, "abc"),
     ContextData(Cvars([n \in {} |-> PyNone]), "7"),
     ContextData(Cvars([n \in {"a"} |-> PyVal("str", "1")]), "None")}

\* A hover request on the target of a line of a document.
HoverWord(code, line, ctx) ==
    /\ last' = [op |-> "hover", code |-> code, line |-> line, args |-> <<>>,
                ctx_data |-> ctx,
                hover |-> hover_for_position_word(code, line, ctx)]
    /\ UNCHANGED <<gvarVars, type_map, assigned, meta_cache, docVars>>

\* CharacterAPI(data).get_cvar(name, default), called directly.
GetCvar(ctx, name, default) ==
    LET r == Invoke("CharacterAPI.get_cvar", <<name, default>>, <<>>, <<>>, ctx)
    IN  /\ last' = [op |-> "get_cvar", code |-> <<>>, line |-> 0,
                    args |-> <<name, default>>, ctx_data |-> ctx,
                    hover |-> [shown |-> "none", value |-> r.val,
                               bindings |-> [n \in {} |-> PyNone], exc |-> r.exc,
                               ctx |-> r.ctx, calls |-> <<"CharacterAPI.get_cvar">>]]
        /\ UNCHANGED <<gvarVars, type_map, assigned, meta_cache, docVars>>

NextHover ==
    \/ \E code \in HoverDocs, ctx \in ContextDatas :
        \E line \in 0..(Len(code) - 1) : HoverWord(code, line, ctx)
    \/ \E ctx \in ContextDatas, name \in {"a", "m"}, default \in {"None", "fb"} :
        GetCvar(ctx, PyVal("str", name),
                IF default = "None" THEN PyNone ELSE PyVal("str", default))

SpecHover == InitDefault /\ [][NextHover]_vars

\* C21: the hover evaluator runs allow-listed methods only and never
\* raises.  After a hover request every method that was run is on the
\* allow-list of its class; an assignment of the hovered line whose value
\* is a call of a method that is not on the allow-list of its receiver
\* binds nothing; and no exception reaches the caller of the hover.
C21_OnlyAllowListedCalls ==
    last.op = "hover" =>
        /\ \A i \in 1..Len(last.hover.calls) :
            \E cls \in DOMAIN SAFE_METHODS : \E m \in SAFE_METHODS[cls] :
                last.hover.calls[i] = cls \o "." \o m
        /\ LET value == last.code[last.line + 1].kids[2]
           IN  (/\ value.k = "Call"
                /\ value.kids[1].k = "Attribute"
                /\ value.kids[1].s \in {"set_cvar", "delete_cvar", "set_round"})
               => last.hover.shown # "local"
        /\ last.hover.exc = ""

\* C22: get_cvar reads only.  A direct get_cvar of a cvar that does not
\* exist returns the default and leaves the character's data as it was;
\* a hover request that ran no method but get_cvar leaves the context
\* data as it was.
C22_GetCvarReadOnly ==
    /\ (/\ last.op = "get_cvar"
        /\ PyStr(last.args[1]) \notin DOMAIN last.ctx_data.character.cvars.items)
       => /\ last.hover.value = last.args[2]
          /\ last.hover.ctx = last.ctx_data
    /\ (/\ last.op = "hover"
        /\ last.hover.calls # <<>>
        /\ \A i \in 1..Len(last.hover.calls) :
            last.hover.calls[i] = "CharacterAPI.get_cvar")
       => last.hover.ctx = last.ctx_data

(***************************************************************************)
(* The `using` builtin of the mock runtime (runtime.py).  The state of a   *)
(* run is the interpreter's name table and depth counter, the import       *)
(* stack and the import cache of the closure, the exception on its way     *)
(* out ("" for none), the namespace of the module loaded last, and, for    *)
(* every module that was executed, the import stack at that moment.  A     *)
(* value of the name table is a number or a module namespace, kept by the  *)
(* names it holds.  The gvars are the resolver's cache; a module is a      *)
(* sequence of statements, each an assignment to a name or a call of       *)
(* using with its keyword arguments in order.                              *)
(***************************************************************************)
max_recursion_depth == 3

\* interp.builtins: names that may not be shadowed
Builtins == {"len", "using"}

Number == [kind |-> "int", attrs |-> {}]

\* SimpleNamespace(**names)
SimpleNamespace(names) == [kind |-> "module", attrs |-> DOMAIN names]

NoNames == [n \in {} |-> Number]

Run(names, depth) ==
    [names |-> names, depth |-> depth, import_stack |-> <<>>,
     import_cache |-> [a \in {} |-> Number], exc |-> "", mod_ns |-> Number,
     loads |-> <<>>]

AssignStmt(name) == [k |-> "assign", name |-> name, imports |-> <<>>]
UsingStmt(imports) == [k |-> "using", name |-> "", imports |-> imports]

Raise(st, exc) == [st EXCEPT !.exc = exc]

\* `addr_str in import_stack` that finds nothing
NeverInStack(addr_str, import_stack) == FALSE

\* addr_str in import_stack
InStack(addr_str, import_stack) ==
    \E i \in 1..Len(import_stack) : import_stack[i] = addr_str

RECURSIVE ImportLoop(_, _, _)
RECURSIVE execute_module(_, _, _)

\* finally: interp._depth -= 1; interp._names = old_names
LoadFinally(r, old_names) == [r EXCEPT !.depth = @ - 1, !.names = old_names]

\* mod_ns = SimpleNamespace(**interp._names); import_cache[addr] = mod_ns
LoadDone(r, addr) ==
    IF r.exc # "" THEN r
    ELSE [r EXCEPT !.mod_ns = SimpleNamespace(r.names),
                   !.import_cache = Put(r.import_cache, addr, SimpleNamespace(r.names))]

\* inside try, after interp._names = {} and interp._depth += 1
LoadBody(addr, st, gvars) ==
    IF st.depth > max_recursion_depth THEN Raise(st, "RecursionError")
    ELSE LoadDone(execute_module(gvars[addr],
                                 [st EXCEPT !.loads = Append(@, st.import_stack)],
                                 gvars),
                  addr)

\* _using._load_module(addr)
_load_module(addr, st, gvars) ==
    IF addr \in DOMAIN st.import_cache
    THEN [st EXCEPT !.mod_ns = st.import_cache[addr]]
    \* resolver.get_local(addr) is None
    ELSE IF addr \notin DOMAIN gvars THEN Raise(st, "ModuleNotFoundError")
    ELSE LoadFinally(LoadBody(addr,
                              [st EXCEPT !.names = NoNames, !.depth = @ + 1],
                              gvars),
                     st.names)

\* finally: import_stack.pop()
Pop(r) == [r EXCEPT !.import_stack = SubSeq(@, 1, Len(@) - 1)]

\* after the module is loaded: the builtin check and user_ns[name] = mod_ns
ImportBind(rest, name, r, gvars) ==
    IF r.exc # "" THEN r
    ELSE IF name \in Builtins THEN Raise(r, "ValueError")
    ELSE ImportLoop(rest, [r EXCEPT !.names = Put(r.names, name, r.mod_ns)], gvars)

\* for ns, addr in imports.items()
ImportLoop(imports, st, gvars) ==
    IF imports = <<>> THEN st
    ELSE IF InStack(Head(imports)[2], st.import_stack)
    THEN Raise(st, "ImportError")
    ELSE ImportBind(Tail(imports), Head(imports)[1],
                    Pop(_load_module(Head(imports)[2],
                                     [st EXCEPT !.import_stack =
                                         Append(@, Head(imports)[2])],
                                     gvars)),
                    gvars)

\* _using(**imports)
_using(imports, st, gvars) == ImportLoop(imports, st, gvars)

\* interp.execute_module(mod_contents, module_name=addr): the statements in
\* order, up to the first exception.
execute_module(body, st, gvars) ==
    IF body = <<>> \/ st.exc # "" THEN st
    ELSE IF Head(body).k = "assign"
    THEN execute_module(Tail(body),
                        [st EXCEPT !.names = Put(st.names, Head(body).name, Number)],
                        gvars)
    ELSE execute_module(Tail(body), _using(Head(body).imports, st, gvars), gvars)

Modules == {"mod_a", "mod_b", "mod_c"}

ModuleBodies ==
    {<<AssignStmt("v")>>}
        \cup {<<UsingStmt(<< <<"x", m>> >>)>> : m \in Modules}
        \cup {<<AssignStmt("v"), UsingStmt(<< <<"x", p[1]>>, <<"y", p[2]>> >>)>> :
                p \in {q \in Modules \X Modules : q[1] # q[2]}}

\* resolver.seed({addr: body})
SeedModule(addr, body) ==
    /\ cache' = seed(cache, Dict(<< <<StrKey(addr), body>> >>))
    /\ last' = [NoStep EXCEPT !.op = "seed"]
    /\ UNCHANGED <<config, procs, ret, ops, type_map, assigned, meta_cache, docVars>>

\* A using(**imports) call of the running code, the name v being bound and
\* the interpreter at the given depth.
Using(imports, depth) ==
    /\ last' = [op |-> "using", imports |-> imports,
                before |-> Run(Put(NoNames, "v", Number), depth),
                after |-> _using(imports, Run(Put(NoNames, "v", Number), depth), cache)]
    /\ UNCHANGED <<gvarVars, type_map, assigned, meta_cache, docVars>>

NextUsing ==
    \/ \E addr \in Modules, body \in ModuleBodies : SeedModule(addr, body)
    \/ \E imports \in {<< <<"a", "mod_a">> >>, << <<"len", "mod_a">> >>,
                       << <<"v", "mod_b">> >>,
                       << <<"a", "mod_a">>, <<"b", "mod_b">> >>},
          depth \in {0, 1} : Using(imports, depth)

SpecUsing == InitDefault /\ [][NextUsing]_vars

\* The modules that the gvar m imports.
ImportsOf(m) ==
    IF m \notin DOMAIN cache THEN {}
    ELSE UNION {{cache[m][i].imports[j][2] : j \in 1..Len(cache[m][i].imports)} :
                    i \in 1..Len(cache[m])}

\* n is reached from m by one to `steps` imports.
RECURSIVE Reaches(_, _, _)
Reaches(m, n, steps) ==
    /\ steps > 0
    /\ \E k \in ImportsOf(m) : k = n \/ Reaches(k, n, steps - 1)

\* C23: using rejects circular imports and unwinds.  After a using call of
\* the running code, returned or raised: the import stack is empty, the
\* depth counter is what it was, the names bound before are bound as
\* before unless the call imported under them, and nothing but the
\* imported namespaces was added; no module was executed while it was
\* still being loaded; a call that returned executed no module that
\* imports itself, directly or through others; and 'Circular import
\* detected' is raised only when some module does.
C23_UsingRejectsCycles ==
    last.op = "using" =>
        LET ns == {last.imports[i][1] : i \in 1..Len(last.imports)}
            before == last.before
            after == last.after
        IN  /\ after.import_stack = <<>>
            /\ after.depth = before.depth
            /\ \A n \in DOMAIN before.names \ ns :
                n \in DOMAIN after.names /\ after.names[n] = before.names[n]
            /\ DOMAIN after.names \subseteq DOMAIN before.names \cup ns
            /\ after.exc = "" => DOMAIN after.names = DOMAIN before.names \cup ns
            /\ \A i \in 1..Len(after.loads) :
                \A j, k \in 1..Len(after.loads[i]) :
                    after.loads[i][j] = after.loads[i][k] => j = k
            /\ after.exc = "" =>
                \A m \in DOMAIN after.import_cache : ~Reaches(m, m, 3)
            /\ after.exc = "ImportError" => \E m \in Modules : Reaches(m, m, 3)

C23_Witness ==
    /\ last.op = "using"
    /\ last.after.exc = "ImportError"
    /\ last.before.depth = 0
    /\ \E i \in 1..Len(last.after.loads) : Len(last.after.loads[i]) = 2
    /\ "mod_b" \in DOMAIN last.after.import_cache

====
